---- MODULE Spec2Model ----
(***************************************************************************)
(* A model of libruskel's Renderer (crates/libruskel/src/render.rs).       *)
(*                                                                         *)
(* The renderer walks a rustdoc `Crate` (an index from ids to items and a  *)
(* root id) and builds the skeleton text.  The text is modelled as a       *)
(* sequence of string tokens, one token per piece that the code's          *)
(* `format!` calls put together, so that containment, order and counting   *)
(* of declarations can be stated.  The recursion between render_item,      *)
(* render_module and render_import is modelled as an explicit call stack,  *)
(* one step per call or loop iteration; the renderers that do not recurse  *)
(* (struct, impl, function) are operators that compute their text.         *)
(* Doc comments, generics and where clauses are absent from the modelled   *)
(* crates (docs = None, no generic parameters), and the external rustfmt   *)
(* pass of `render` is not modelled: `output` is the unformatted buffer.   *)
(* Ruskel::new and Ruskel::pretty_raw_json (crates/libruskel/src/lib.rs)   *)
(* are modelled as a second process over a small file system.              *)
(***************************************************************************)
EXTENDS Integers, Sequences, FiniteSets, TLC

VARIABLES
    crate,      \* the rustdoc Crate being rendered: [root, index]
    cfg,        \* the Renderer's flags: [auto, private, blanket]
    status,     \* "ready" | "running" | "done" | "overflow"
    stack,      \* call stack of render_item / render_module / render_import
    output,     \* the text built so far, a sequence of tokens
    spans,      \* history: one record per returned call, with the text it produced
    ncalls,     \* history: number of calls made so far
    disk,       \* the file system Ruskel::new looks at: [dirs, files, workspaces]
    ruskel,     \* Ruskel::new and the Ruskel value it builds (lib.rs)
    runs        \* history: the texts that the earlier render calls returned

vars == <<crate, cfg, status, stack, output, spans, ncalls, disk, ruskel, runs>>

(***************************************************************************)
(* Bounds                                                                  *)
(***************************************************************************)
\* depth of the call stack at which the process runs out of stack
MaxDepth == 10
\* largest number of fields of a modelled struct
MaxFields == 3

(***************************************************************************)
(* The data model (rustdoc_types)                                          *)
(***************************************************************************)
\* Option<Id>::None
NoId == 0
\* Option<String>::None for an item's name
NoName == "<none>"
\* Option<Path>::None for an impl's trait; a path is the sequence of the
\* segments that "::" separates in its name
NoPath == <<>>

Public == "public"
Default == "default"
CrateVis == "crate"

\* Option<String>::None for the lifetime of a reference or a dyn-trait object
NoLifetime == "<no lifetime>"

\* every Type has the same record shape; a field that its variant does not
\* use keeps the value it has here
BlankType ==
    [k |-> "Infer", name |-> "", lifetime |-> NoLifetime, mutable |-> FALSE,
     args |-> FALSE,      \* Path.args.is_some()
     elems |-> <<>>,      \* the types inside: generic arguments, elements, referent,
                          \* self type, inputs of a function pointer
     traits |-> <<>>,     \* DynTrait.traits, as the names of their paths
     trait |-> "",        \* QualifiedPath.trait_, as the text of its path ("" if none)
     len |-> "",          \* Array.len
     output |-> <<>>]     \* FunctionPointer.decl.output: no type or one

Infer == BlankType
Generic(name) == [BlankType EXCEPT !.k = "Generic", !.name = name]
Primitive(name) == [BlankType EXCEPT !.k = "Primitive", !.name = name]
\* ResolvedPath whose args are None
ResolvedPath(name) == [BlankType EXCEPT !.k = "ResolvedPath", !.name = name]
\* ResolvedPath with angle-bracketed args, all of them types
ResolvedPathWith(name, args) ==
    [BlankType EXCEPT !.k = "ResolvedPath", !.name = name, !.args = TRUE,
                      !.elems = args]
DynTrait(traits, lifetime) ==
    [BlankType EXCEPT !.k = "DynTrait", !.traits = traits, !.lifetime = lifetime]
TupleType(types) == [BlankType EXCEPT !.k = "Tuple", !.elems = types]
Slice(ty) == [BlankType EXCEPT !.k = "Slice", !.elems = <<ty>>]
Array(ty, len) == [BlankType EXCEPT !.k = "Array", !.elems = <<ty>>, !.len = len]
RawPointer(mutable, ty) ==
    [BlankType EXCEPT !.k = "RawPointer", !.mutable = mutable, !.elems = <<ty>>]
BorrowedRef(lifetime, mutable, ty) ==
    [BlankType EXCEPT !.k = "BorrowedRef", !.lifetime = lifetime,
                      !.mutable = mutable, !.elems = <<ty>>]
\* QualifiedPath with empty args
QualifiedPath(name, selfType, trait) ==
    [BlankType EXCEPT !.k = "QualifiedPath", !.name = name, !.elems = <<selfType>>,
                      !.trait = trait]
\* FunctionPointer whose parameters are all named `_`
FunctionPointer(inputs, out) ==
    [BlankType EXCEPT !.k = "FunctionPointer", !.elems = inputs, !.output = out]

\* FnDecl: inputs is a list of (name, type), output is no type or one
FnDecl(inputs, out) == [inputs |-> inputs, output |-> out]
\* a function without parameters and return type
NoDecl == FnDecl(<<>>, <<>>)

\* every item has the same record shape; a field that its kind does not use
\* keeps the value it has here
Blank ==
    [kind |-> "Unknown", vis |-> Default, name |-> NoName,
     items |-> <<>>,      \* Module.items, Impl.items, Struct fields (Option<Id>)
     impls |-> <<>>,      \* Struct.impls, Enum.impls, Trait.implementations
     skind |-> "unit",    \* StructKind: "unit" | "tuple" | "plain"
     glob |-> FALSE,      \* Import.glob
     id |-> NoId,         \* Import.id
     source |-> <<>>,     \* Import.source, as its "::"-separated segments
     ty |-> "",           \* StructField type, Impl.for_
     synthetic |-> FALSE, \* Impl.synthetic
     blanket |-> FALSE,   \* Impl.blanket_impl.is_some()
     trait |-> NoPath,    \* Impl.trait_ path name, as its segments
     unsafe |-> FALSE,    \* Impl.is_unsafe, Trait.is_unsafe
     hasBody |-> TRUE,    \* Function.has_body
     vkind |-> "plain",   \* VariantKind: "plain" | "tuple" | "struct"
     discriminant |-> NoName, \* Variant.discriminant: its expr, or None
     expr |-> NoName,     \* Constant expr, Macro text, AssocConst default (or None)
     mkind |-> "bang",    \* ProcMacro.kind: "derive" | "attr" | "bang"
     helpers |-> <<>>,    \* ProcMacro.helpers
     decl |-> NoDecl,     \* Function.decl
     span |-> NoId]       \* Item.span, as the module whose source text holds the item

Module(name, vis, items) ==
    [Blank EXCEPT !.kind = "Module", !.name = name, !.vis = vis, !.items = items]

Struct(name, vis, skind, fields, impls) ==
    [Blank EXCEPT !.kind = "Struct", !.name = name, !.vis = vis, !.skind = skind,
                  !.items = fields, !.impls = impls]

StructField(name, vis, ty) ==
    [Blank EXCEPT !.kind = "StructField", !.name = name, !.vis = vis, !.ty = ty]

Function(name, vis) ==
    [Blank EXCEPT !.kind = "Function", !.name = name, !.vis = vis]

\* a function with parameters or a return type
FunctionWith(name, vis, decl, hasBody) ==
    [Blank EXCEPT !.kind = "Function", !.name = name, !.vis = vis, !.decl = decl,
                  !.hasBody = hasBody]

Import(name, vis, source, id, glob) ==
    [Blank EXCEPT !.kind = "Import", !.name = name, !.vis = vis, !.source = source,
                  !.id = id, !.glob = glob]

Impl(trait, for_, synthetic, blanket, items) ==
    [Blank EXCEPT !.kind = "Impl", !.trait = trait, !.ty = for_,
                  !.synthetic = synthetic, !.blanket = blanket, !.items = items]

\* fields and variants are lists of ids: a variant's tuple fields are Option<Id>
Enum(name, vis, variants) ==
    [Blank EXCEPT !.kind = "Enum", !.name = name, !.vis = vis, !.items = variants]

Variant(name, vkind, fields, discriminant) ==
    [Blank EXCEPT !.kind = "Variant", !.name = name, !.vkind = vkind,
                  !.items = fields, !.discriminant = discriminant]

Trait(name, vis, items) ==
    [Blank EXCEPT !.kind = "Trait", !.name = name, !.vis = vis, !.items = items]

Constant(name, vis, ty, expr) ==
    [Blank EXCEPT !.kind = "Constant", !.name = name, !.vis = vis, !.ty = ty,
                  !.expr = expr]

TypeAlias(name, vis, ty) ==
    [Blank EXCEPT !.kind = "TypeAlias", !.name = name, !.vis = vis, !.ty = ty]

Macro(name, vis, text) ==
    [Blank EXCEPT !.kind = "Macro", !.name = name, !.vis = vis, !.expr = text]

ProcMacro(name, vis, mkind) ==
    [Blank EXCEPT !.kind = "ProcMacro", !.name = name, !.vis = vis, !.mkind = mkind]

\* AssocType { default }: `ty` is the default type, NoName for None
AssocType(name, default) ==
    [Blank EXCEPT !.kind = "AssocType", !.name = name, !.ty = default]

\* AssocConst { type_, default }
AssocConst(name, ty, default) ==
    [Blank EXCEPT !.kind = "AssocConst", !.name = name, !.ty = ty, !.expr = default]

\* crate_data.index.get(id).is_some()
Resolves(id) == id \in DOMAIN crate.index

(***************************************************************************)
(* Text helpers                                                            *)
(***************************************************************************)
RECURSIVE Concat(_), Concat_LastFirst(_)
\* a concatenation that starts with the last text
Concat_LastFirst(texts) ==
    IF texts = <<>> THEN <<>>
    ELSE texts[Len(texts)] \o Concat_LastFirst(SubSeq(texts, 1, Len(texts) - 1))

\* the concatenation of a sequence of texts (push_str in order)
Concat(texts) ==
    IF texts = <<>> THEN <<>> ELSE Head(texts) \o Concat(Tail(texts))

RECURSIVE Join(_, _)
\* Vec<String>::join(sep)
Join(texts, sep) ==
    IF texts = <<>> THEN <<>>
    ELSE IF Len(texts) = 1 THEN Head(texts)
    ELSE Head(texts) \o <<sep>> \o Join(Tail(texts), sep)

\* taking the first segment of the path instead of the last
LastSegment_First(path) == Head(path)

RECURSIVE LastSegment(_)
\* name.split("::").last()
LastSegment(path) ==
    IF Len(path) = 1 THEN Head(path) ELSE LastSegment(Tail(path))

\* the text of a path: its segments with "::" between them
PathText(path) == Join([k \in 1..Len(path) |-> <<path[k]>>], "::")

ReservedWords ==
    {"abstract", "as", "become", "box", "break", "const", "continue", "crate", "do",
     "else", "enum", "extern", "false", "final", "fn", "for", "if", "impl", "in",
     "let", "loop", "macro", "match", "mod", "move", "mut", "override", "priv",
     "pub", "ref", "return", "self", "Self", "static", "struct", "super", "trait",
     "true", "try", "type", "typeof", "unsafe", "unsized", "use", "virtual",
     "where", "while", "yield"}

\* a renderer of names that writes a reserved word as it is
RenderName_NeverRaw(name) ==
    IF name = NoName THEN <<"?">> ELSE <<name>>

\* render_name
RenderName(name) ==
    IF name = NoName THEN <<"?">>
    ELSE IF name \in ReservedWords THEN <<"r#", name>>
    ELSE <<name>>

\* the `visibility` prefix every renderer computes
VisPrefix(item) == IF item.vis = Public THEN <<"pub ">> ELSE <<>>

(***************************************************************************)
(* ImplSelector: should_render_impl                                        *)
(***************************************************************************)
FILTERED_TRAITS ==
    {"Any", "Send", "Sync", "Unpin", "UnwindSafe", "RefUnwindSafe", "Borrow",
     "BorrowMut", "From", "Into", "TryFrom", "TryInto", "AsRef", "AsMut",
     "Default", "Debug", "PartialEq", "Eq", "PartialOrd", "Ord", "Hash", "Deref",
     "DerefMut", "Drop", "IntoIterator", "CloneToUninit", "ToOwned"}

\* a selector whose denylist also hides the impls that are not blanket
ShouldRenderImpl_DenylistAnyImpl(impl_, c) ==
    IF impl_.synthetic /\ ~c.auto THEN FALSE
    ELSE IF impl_.blanket /\ ~c.blanket THEN FALSE
    ELSE IF ~c.auto /\ impl_.trait # NoPath
            /\ LastSegment(impl_.trait) \in FILTERED_TRAITS
         THEN FALSE
    ELSE TRUE

ShouldRenderImpl(impl_, c) ==
    IF impl_.synthetic /\ ~c.auto THEN FALSE
    ELSE IF impl_.blanket /\ ~c.blanket THEN FALSE
    ELSE IF ~c.auto /\ impl_.trait # NoPath
            /\ LastSegment(impl_.trait) \in FILTERED_TRAITS /\ impl_.blanket
         THEN FALSE
    ELSE TRUE

(***************************************************************************)
(* Types and function signatures                                           *)
(***************************************************************************)
RECURSIVE RenderTypeInner(_, _), RenderFunctionArgs(_), RenderReturnType(_)

\* a renderer of types that wraps a dyn-trait object only if it has no lifetime
RenderTypeInner_WrapsUnbounded(ty, nested) ==
    CASE ty.k = "ResolvedPath" ->
            <<ty.name>> \o
            (IF ty.args /\ ty.elems # <<>>
             THEN <<"<">> \o Join([i \in 1..Len(ty.elems) |->
                                     RenderTypeInner(ty.elems[i], FALSE)], ", ")
                  \o <<">">>
             ELSE <<>>)
      [] ty.k = "DynTrait" ->
            LET lifetime == IF ty.lifetime # NoLifetime
                            THEN <<" + ", ty.lifetime>> ELSE <<>>
                inner == <<"dyn ">>
                         \o Join([i \in 1..Len(ty.traits) |-> <<ty.traits[i]>>], " + ")
                         \o lifetime
            IN  IF nested /\ ty.lifetime = NoLifetime
                THEN <<"(">> \o inner \o <<")">> ELSE inner
      [] ty.k \in {"Generic", "Primitive"} -> <<ty.name>>
      [] ty.k = "FunctionPointer" ->
            LET decl == FnDecl([i \in 1..Len(ty.elems) |->
                                  [name |-> "_", ty |-> ty.elems[i]]], ty.output)
                returnType == RenderReturnType(decl)
            IN  <<"fn(">> \o RenderFunctionArgs(decl) \o <<")">>
                \o (IF returnType = <<>> THEN <<>> ELSE <<" -> ">> \o returnType)
      [] ty.k = "Tuple" ->
            <<"(">> \o Join([i \in 1..Len(ty.elems) |->
                               RenderTypeInner(ty.elems[i], TRUE)], ", ")
            \o <<")">>
      [] ty.k = "Slice" -> <<"[">> \o RenderTypeInner(ty.elems[1], TRUE) \o <<"]">>
      [] ty.k = "Array" ->
            <<"[">> \o RenderTypeInner(ty.elems[1], TRUE) \o <<"; ", ty.len, "]">>
      [] ty.k = "Infer" -> <<"_">>
      [] ty.k = "RawPointer" ->
            <<"*", IF ty.mutable THEN "mut" ELSE "const", " ">>
            \o RenderTypeInner(ty.elems[1], TRUE)
      [] ty.k = "BorrowedRef" ->
            <<"&">> \o (IF ty.lifetime # NoLifetime THEN <<ty.lifetime, " ">> ELSE <<>>)
            \o (IF ty.mutable THEN <<"mut ">> ELSE <<>>)
            \o RenderTypeInner(ty.elems[1], TRUE)
      [] ty.k = "QualifiedPath" ->
            LET selfTypeStr == RenderTypeInner(ty.elems[1], TRUE)
            IN  IF ty.trait # ""
                THEN <<"<">> \o selfTypeStr \o <<" as ", ty.trait, ">::", ty.name>>
                ELSE selfTypeStr \o <<"::", ty.name>>
      [] OTHER -> <<"/* pattern */">>

\* render_type_inner(ty, nested), with render_generic_args, render_generic_arg,
\* render_poly_trait and render_function_pointer for the types it holds
RenderTypeInner(ty, nested) ==
    CASE ty.k = "ResolvedPath" ->
            <<ty.name>> \o
            (IF ty.args /\ ty.elems # <<>>
             THEN <<"<">> \o Join([i \in 1..Len(ty.elems) |->
                                     RenderTypeInner(ty.elems[i], FALSE)], ", ")
                  \o <<">">>
             ELSE <<>>)
      [] ty.k = "DynTrait" ->
            LET lifetime == IF ty.lifetime # NoLifetime
                            THEN <<" + ", ty.lifetime>> ELSE <<>>
                inner == <<"dyn ">>
                         \o Join([i \in 1..Len(ty.traits) |-> <<ty.traits[i]>>], " + ")
                         \o lifetime
            IN  IF nested /\ ty.lifetime # NoLifetime
                THEN <<"(">> \o inner \o <<")">> ELSE inner
      [] ty.k \in {"Generic", "Primitive"} -> <<ty.name>>
      [] ty.k = "FunctionPointer" ->
            LET decl == FnDecl([i \in 1..Len(ty.elems) |->
                                  [name |-> "_", ty |-> ty.elems[i]]], ty.output)
                returnType == RenderReturnType(decl)
            IN  <<"fn(">> \o RenderFunctionArgs(decl) \o <<")">>
                \o (IF returnType = <<>> THEN <<>> ELSE <<" -> ">> \o returnType)
      [] ty.k = "Tuple" ->
            <<"(">> \o Join([i \in 1..Len(ty.elems) |->
                               RenderTypeInner(ty.elems[i], TRUE)], ", ")
            \o <<")">>
      [] ty.k = "Slice" -> <<"[">> \o RenderTypeInner(ty.elems[1], TRUE) \o <<"]">>
      [] ty.k = "Array" ->
            <<"[">> \o RenderTypeInner(ty.elems[1], TRUE) \o <<"; ", ty.len, "]">>
      [] ty.k = "Infer" -> <<"_">>
      [] ty.k = "RawPointer" ->
            <<"*", IF ty.mutable THEN "mut" ELSE "const", " ">>
            \o RenderTypeInner(ty.elems[1], TRUE)
      [] ty.k = "BorrowedRef" ->
            <<"&">> \o (IF ty.lifetime # NoLifetime THEN <<ty.lifetime, " ">> ELSE <<>>)
            \o (IF ty.mutable THEN <<"mut ">> ELSE <<>>)
            \o RenderTypeInner(ty.elems[1], TRUE)
      [] ty.k = "QualifiedPath" ->
            LET selfTypeStr == RenderTypeInner(ty.elems[1], TRUE)
            IN  IF ty.trait # ""
                THEN <<"<">> \o selfTypeStr \o <<" as ", ty.trait, ">::", ty.name>>
                ELSE selfTypeStr \o <<"::", ty.name>>
      [] OTHER -> <<"/* pattern */">>

\* render_type
RenderType(ty) == RenderTypeInner(ty, FALSE)

\* the closure of render_function_args: one parameter
RenderFunctionArg(name, ty) ==
    IF name = "self"
    THEN CASE ty.k = "BorrowedRef" ->
                 IF ty.mutable THEN <<"&mut self">> ELSE <<"&self">>
           [] ty.k = "ResolvedPath" ->
                 IF ty.name = "Self" /\ ~ty.args THEN <<"self">>
                 ELSE <<"self", ": ">> \o RenderType(ty)
           [] ty.k = "Generic" ->
                 IF ty.name = "Self" THEN <<"self">>
                 ELSE <<"self", ": ">> \o RenderType(ty)
           [] OTHER -> <<"self", ": ">> \o RenderType(ty)
    ELSE <<name, ": ">> \o RenderType(ty)

\* render_function_args
RenderFunctionArgs(decl) ==
    Join([i \in 1..Len(decl.inputs) |->
            RenderFunctionArg(decl.inputs[i].name, decl.inputs[i].ty)], ", ")

\* render_return_type
RenderReturnType(decl) ==
    IF decl.output = <<>> THEN <<>> ELSE RenderType(decl.output[1])

\* the part of render_function between the name and the body
RenderSignature(decl) ==
    <<"(">> \o RenderFunctionArgs(decl) \o <<")">>
    \o (IF RenderReturnType(decl) = <<>> THEN <<>>
        ELSE <<" -> ">> \o RenderReturnType(decl))

(***************************************************************************)
(* Renderers that do not recurse into render_item                          *)
(***************************************************************************)
\* a function renderer that ends every function without a body in `;`
RenderFunction_SemicolonWithoutBody(item, isTraitMethod) ==
    IF item.kind # "Function" THEN <<>>
    ELSE VisPrefix(item) \o <<"fn ">> \o RenderName(item.name)
         \o RenderSignature(item.decl)
         \o (IF ~item.hasBody THEN <<";\n\n">> ELSE <<" {}\n\n">>)

\* render_function(item, is_trait_method), for a function without generics,
\* qualifiers and where-clause
RenderFunction(item, isTraitMethod) ==
    IF item.kind # "Function" THEN <<>>
    ELSE VisPrefix(item) \o <<"fn ">> \o RenderName(item.name)
         \o RenderSignature(item.decl)
         \o (IF isTraitMethod /\ ~item.hasBody THEN <<";\n\n">> ELSE <<" {}\n\n">>)

\* render_constant
RenderConstant(item) ==
    IF item.kind # "Constant" THEN <<>>
    ELSE VisPrefix(item) \o <<"const ">> \o RenderName(item.name)
         \o <<": ", item.ty, " = ", item.expr, ";\n\n">>

\* render_type_alias
RenderTypeAlias(item) ==
    IF item.kind # "TypeAlias" THEN <<>>
    ELSE VisPrefix(item) \o <<"type ">> \o RenderName(item.name)
         \o <<"= ", item.ty, ";\n\n">>

\* render_associated_type, for an associated type without bounds
RenderAssociatedType(item) ==
    IF item.kind # "AssocType" THEN <<>>
    ELSE <<"type ", IF item.name = NoName THEN "?" ELSE item.name>>
         \o (IF item.ty # NoName THEN <<" = ", item.ty>> ELSE <<>>)
         \o <<";\n">>

\* render_macro
RenderMacro(item) ==
    IF item.kind # "Macro" THEN <<>>
    ELSE (IF item.vis = Public THEN <<"#[macro_export]\n">> ELSE <<>>)
         \o <<item.expr, "\n">>

\* the attribute render_proc_macro writes before the stub
ProcMacroAttribute(item) ==
    CASE item.mkind = "derive" ->
            IF item.helpers # <<>>
            THEN <<"#[proc_macro_derive(">> \o RenderName(item.name)
                 \o <<", attributes(">>
                 \o Join([k \in 1..Len(item.helpers) |-> <<item.helpers[k]>>], ", ")
                 \o <<")", ")]\n">>
            ELSE <<"#[proc_macro_derive(">> \o RenderName(item.name) \o <<")]\n">>
      [] item.mkind = "attr" -> <<"#[proc_macro_attribute]\n">>
      [] OTHER -> <<"#[proc_macro]\n">>

\* a stub that takes one parameter for every kind of macro
ProcMacroArgs_AlwaysOne(item) == <<"input", ": ", "proc_macro::TokenStream">>

\* the parameters of the stub
ProcMacroArgs(item) ==
    IF item.mkind = "attr"
    THEN <<"attr", ": ", "proc_macro::TokenStream", ", ",
           "item", ": ", "proc_macro::TokenStream">>
    ELSE <<"input", ": ", "proc_macro::TokenStream">>

\* render_proc_macro
RenderProcMacro(item) ==
    IF item.kind # "ProcMacro" THEN <<>>
    ELSE ProcMacroAttribute(item)
         \o <<"pub fn ">> \o RenderName(item.name) \o <<"(">>
         \o ProcMacroArgs(item)
         \o <<") -> ", "proc_macro::TokenStream", " {}\n">>

\* an impl member renderer that also has a rule for associated constants
RenderImplItem_AssocConst(item) ==
    CASE item.kind = "Function" -> RenderFunction(item, FALSE)
      [] item.kind = "Constant" -> RenderConstant(item)
      [] item.kind = "AssocType" -> RenderAssociatedType(item)
      [] item.kind = "TypeAlias" -> RenderTypeAlias(item)
      [] item.kind = "AssocConst" ->
            <<"const ">> \o RenderName(item.name) \o <<": ", item.ty, " = ", item.expr, ";\n">>
      [] OTHER -> <<>>

\* render_impl_item
RenderImplItem(item) ==
    CASE item.kind = "Function" -> RenderFunction(item, FALSE)
      [] item.kind = "Constant" -> RenderConstant(item)
      [] item.kind = "AssocType" -> RenderAssociatedType(item)
      [] item.kind = "TypeAlias" -> RenderTypeAlias(item)
      [] OTHER -> <<>>

\* a member filter that treats the members of a trait impl like those of an
\* inherent impl
ImplMemberIncluded_PublicOnly(impl_, member, c) ==
    c.private \/ member.vis = Public

\* the member filter of render_impl's loop
ImplMemberIncluded(impl_, member, c) ==
    impl_.trait # NoPath \/ c.private \/ member.vis = Public

\* render_impl
RenderImpl(item) ==
    IF item.kind # "Impl" THEN <<>>
    ELSE IF ~ShouldRenderImpl(item, cfg) THEN <<>>
    ELSE (IF item.unsafe THEN <<"unsafe ">> ELSE <<>>)
         \o <<"impl", " ">>
         \o (IF item.trait # NoPath THEN PathText(item.trait) \o <<" for ">> ELSE <<>>)
         \o <<item.ty, " {\n">>
         \o Concat([k \in 1..Len(item.items) |->
                IF Resolves(item.items[k])
                   /\ ImplMemberIncluded(item, crate.index[item.items[k]], cfg)
                THEN RenderImplItem(crate.index[item.items[k]])
                ELSE <<>>])
         \o <<"}\n\n">>

\* a field renderer that leaves a placeholder for a hidden field
RenderStructField_Placeholder(fieldId) ==
    IF ~Resolves(fieldId) THEN <<>>
    ELSE LET f == crate.index[fieldId] IN
         IF f.vis = Public \/ cfg.private
         THEN IF f.kind = "StructField"
              THEN VisPrefix(f) \o RenderName(f.name) \o <<": ", f.ty, ",\n">>
              ELSE <<"// Unknown field type\n">>
         ELSE <<"_", ",\n">>

\* a field renderer that renders the fields of every visibility
RenderStructField_AnyVisibility(fieldId) ==
    IF ~Resolves(fieldId) THEN <<>>
    ELSE LET f == crate.index[fieldId] IN
         IF f.kind = "StructField"
         THEN VisPrefix(f) \o RenderName(f.name) \o <<": ", f.ty, ",\n">>
         ELSE <<"// Unknown field type\n">>

\* render_struct_field
RenderStructField(fieldId) ==
    IF ~Resolves(fieldId) THEN <<>>
    ELSE LET f == crate.index[fieldId] IN
         IF f.vis = Public \/ cfg.private
         THEN IF f.kind = "StructField"
              THEN VisPrefix(f) \o RenderName(f.name) \o <<": ", f.ty, ",\n">>
              ELSE <<"// Unknown field type\n">>
         ELSE <<>>

\* one slot of a tuple struct's field list: the closure that render_struct maps
\* over the fields that are Some(id)
TupleSlot(fieldId) ==
    IF ~Resolves(fieldId) THEN <<>>
    ELSE LET f == crate.index[fieldId] IN
         IF f.kind # "StructField" THEN <<>>
         ELSE IF ~cfg.private /\ f.vis # Public THEN <<"_">>
         ELSE VisPrefix(f) \o <<f.ty>>

\* a filter that also drops the fields that are not public
PresentFields_PublicOnly(fields) ==
    SelectSeq(fields, LAMBDA id :
        id # NoId /\ (Resolves(id) => crate.index[id].vis = Public))

\* fields.iter().filter_map(|field| field.as_ref()...): the None slots are dropped
PresentFields(fields) == SelectSeq(fields, LAMBDA id : id # NoId)

\* the loop over struct_.impls at the end of render_struct
RenderStructImpls(item) ==
    Concat([k \in 1..Len(item.impls) |->
        IF Resolves(item.impls[k])
           /\ crate.index[item.impls[k]].kind = "Impl"
           /\ ShouldRenderImpl(crate.index[item.impls[k]], cfg)
        THEN RenderImpl(crate.index[item.impls[k]])
        ELSE <<>>])

\* the struct declaration that render_struct emits before the impl blocks
RenderStructDecl(item) ==
    CASE item.skind = "unit" ->
            VisPrefix(item) \o <<"struct ">> \o RenderName(item.name) \o <<";\n\n">>
      [] item.skind = "tuple" ->
            LET present == PresentFields(item.items) IN
            VisPrefix(item) \o <<"struct ">> \o RenderName(item.name) \o <<"(">>
            \o Join([k \in 1..Len(present) |-> TupleSlot(present[k])], ", ")
            \o <<")", ";\n\n">>
      [] item.skind = "plain" ->
            VisPrefix(item) \o <<"struct ">> \o RenderName(item.name) \o <<" {\n">>
            \o Concat([k \in 1..Len(item.items) |-> RenderStructField(item.items[k])])
            \o <<"}\n\n">>

\* render_struct
RenderStruct(item) ==
    IF item.kind # "Struct" THEN <<>>
    ELSE RenderStructDecl(item) \o RenderStructImpls(item)

\* a slot that hides the type of a field that is not public, as the slot of a
\* tuple struct does
VariantSlot_AsTupleStruct(fieldId) == TupleSlot(fieldId)

\* one slot of a tuple variant's field list: the closure that
\* render_enum_variant maps over the fields that are Some(id)
VariantSlot(fieldId) ==
    IF ~Resolves(fieldId) THEN <<>>
    ELSE IF crate.index[fieldId].kind = "StructField" THEN <<crate.index[fieldId].ty>>
    ELSE <<>>

\* the line render_enum_variant emits for a field of a struct variant
VariantFieldLine(fieldId) ==
    IF Resolves(fieldId)
    THEN <<"        ">> \o RenderStructField(fieldId) \o <<"\n">>
    ELSE <<>>

\* render_enum_variant
RenderEnumVariant(item) ==
    IF item.kind # "Variant" THEN <<>>
    ELSE <<"    ">> \o RenderName(item.name)
         \o (CASE item.vkind = "plain" -> <<>>
               [] item.vkind = "tuple" ->
                    LET present == PresentFields(item.items) IN
                    <<"(">>
                    \o Join([k \in 1..Len(present) |-> VariantSlot(present[k])], ", ")
                    \o <<")">>
               [] item.vkind = "struct" ->
                    <<" {\n">>
                    \o Concat([k \in 1..Len(item.items) |->
                                    VariantFieldLine(item.items[k])])
                    \o <<"    }">>)
         \o (IF item.discriminant # NoName THEN <<" = ", item.discriminant>> ELSE <<>>)
         \o <<",\n">>

\* an enum renderer that leaves a comment where a variant does not resolve
RenderEnum_MarkingMissing(item) ==
    IF item.kind # "Enum" THEN <<>>
    ELSE VisPrefix(item) \o <<"enum ">> \o RenderName(item.name) \o <<" {\n">>
         \o Concat([k \in 1..Len(item.items) |->
                IF Resolves(item.items[k])
                THEN RenderEnumVariant(crate.index[item.items[k]])
                ELSE <<"    // hidden\n">>])
         \o <<"}\n\n">>

\* render_enum
RenderEnum(item) ==
    IF item.kind # "Enum" THEN <<>>
    ELSE VisPrefix(item) \o <<"enum ">> \o RenderName(item.name) \o <<" {\n">>
         \o Concat([k \in 1..Len(item.items) |->
                IF Resolves(item.items[k])
                THEN RenderEnumVariant(crate.index[item.items[k]])
                ELSE <<>>])
         \o <<"}\n\n">>

\* render_trait_item, for associated items without bounds or generics
RenderTraitItem(item) ==
    CASE item.kind = "Function" -> RenderFunction(item, TRUE)
      [] item.kind = "AssocConst" ->
            <<"const ">> \o RenderName(item.name) \o <<": ", item.ty>>
            \o (IF item.expr # NoName THEN <<" = ", item.expr>> ELSE <<>>)
            \o <<";\n">>
      [] item.kind = "AssocType" ->
            <<"type ">> \o RenderName(item.name)
            \o (IF item.ty # NoName THEN <<" = ", item.ty>> ELSE <<>>)
            \o <<";\n">>
      [] OTHER -> <<>>

\* render_trait, for a trait without generics or supertraits
RenderTrait(item) ==
    IF item.kind # "Trait" THEN <<>>
    ELSE VisPrefix(item) \o (IF item.unsafe THEN <<"unsafe ">> ELSE <<>>)
         \o <<"trait ">> \o RenderName(item.name) \o <<" {\n">>
         \o Concat([k \in 1..Len(item.items) |->
                IF Resolves(item.items[k])
                THEN RenderTraitItem(crate.index[item.items[k]])
                ELSE <<>>])
         \o <<"}\n\n">>

\* a match with an arm for impl blocks
RenderLeaf_WithImpls(item) ==
    CASE item.kind = "Struct" -> RenderStruct(item)
      [] item.kind = "Enum" -> RenderEnum(item)
      [] item.kind = "Trait" -> RenderTrait(item)
      [] item.kind = "Function" -> RenderFunction(item, FALSE)
      [] item.kind = "Constant" -> RenderConstant(item)
      [] item.kind = "TypeAlias" -> RenderTypeAlias(item)
      [] item.kind = "Macro" -> RenderMacro(item)
      [] item.kind = "ProcMacro" -> RenderProcMacro(item)
      [] item.kind = "Impl" -> RenderImpl(item)
      [] OTHER -> <<>>

\* the arms of render_item's match that return their text without recursing
\* into render_item (the other item kinds fall to `_ => String::new()`)
RenderLeaf(item) ==
    CASE item.kind = "Struct" -> RenderStruct(item)
      [] item.kind = "Enum" -> RenderEnum(item)
      [] item.kind = "Trait" -> RenderTrait(item)
      [] item.kind = "Function" -> RenderFunction(item, FALSE)
      [] item.kind = "Constant" -> RenderConstant(item)
      [] item.kind = "TypeAlias" -> RenderTypeAlias(item)
      [] item.kind = "Macro" -> RenderMacro(item)
      [] item.kind = "ProcMacro" -> RenderProcMacro(item)
      [] OTHER -> <<>>

(***************************************************************************)
(* The traversal: render, render_item, render_module, render_import        *)
(***************************************************************************)
\* a call frame: the function, the item it was called on, its force_private
\* argument, where it stands ("enter": at its first line, "loop": in its loop
\* over a module's items at index i, "tail": waiting for the call whose text it
\* returns unchanged), and for the history the output length at entry, the
\* call's number and its caller's number
Frame(fn, id, force, parent) ==
    [fn |-> fn, id |-> id, force |-> force, st |-> "enter", i |-> 0,
     start |-> Len(output), cid |-> ncalls + 1, parent |-> parent]

Top == stack[Len(stack)]

\* the stack with its top frame replaced
SetTop(f) == [stack EXCEPT ![Len(stack)] = f]

RECURSIVE Unwind(_)
\* the frames that return when the top frame returns: the top frame and every
\* caller below it that only passes the callee's text on
Unwind(stk) ==
    IF stk = <<>> THEN <<>>
    ELSE LET rest == SubSeq(stk, 1, Len(stk) - 1) IN
         IF rest # <<>> /\ rest[Len(rest)].st = "tail"
         THEN <<stk[Len(stk)]>> \o Unwind(rest)
         ELSE <<stk[Len(stk)]>>

\* the top frame returns after appending `text` to the output
Return(text) ==
    LET gone == Unwind(stack) IN
    /\ output' = output \o text
    /\ stack' = SubSeq(stack, 1, Len(stack) - Len(gone))
    /\ spans' = spans \o [k \in 1..Len(gone) |->
                    [cid |-> gone[k].cid, parent |-> gone[k].parent,
                     fn |-> gone[k].fn, id |-> gone[k].id, force |-> gone[k].force,
                     from |-> gone[k].start, to |-> Len(output) + Len(text)]]
    /\ UNCHANGED <<status, ncalls>>

\* the top frame, updated to `caller`, calls fn(id, force); a call that would
\* make the stack deeper than MaxDepth overflows the stack and ends the process
Call(caller, fn, id, force) ==
    IF Len(stack) >= MaxDepth
    THEN /\ status' = "overflow"
         /\ UNCHANGED <<stack, output, spans, ncalls>>
    ELSE /\ stack' = Append(SetTop(caller), Frame(fn, id, force, caller.cid))
         /\ ncalls' = ncalls + 1
         /\ UNCHANGED <<status, output, spans>>

\* a visibility test that forgets the force_private argument
Skipped_IgnoringForce(item, force, c) == ~c.private /\ item.vis # Public

\* a visibility test that lets every module through, whatever its visibility
Skipped_ExceptModules(item, force, c) ==
    ~force /\ ~c.private /\ item.vis # Public /\ item.kind # "Module"

\* a renderer that remembers the items it has rendered and skips them when it
\* reaches them again
Skipped_OncePerItem(item, force, c) ==
    IF ~force /\ ~c.private /\ item.vis # Public THEN TRUE
    ELSE \E k \in 1..Len(spans) :
            /\ spans[k].fn = "render_item"
            /\ crate.index[spans[k].id] = item
            /\ spans[k].to > spans[k].from

\* the visibility test at the head of render_item
Skipped(item, force, c) == ~force /\ ~c.private /\ item.vis # Public

\* a renderer that keeps its buffer between two calls of render
NewOutput_Kept == output

\* the buffer a call of render starts with: `let mut output = String::new()`
NewOutput == <<>>

\* render: start with an empty buffer, look the root up and call
\* render_item(root, false)
Render ==
    /\ status = "ready"
    /\ output' = NewOutput
    /\ IF Resolves(crate.root)
       THEN /\ status' = "running"
            /\ stack' = <<[Frame("render_item", crate.root, FALSE, 0)
                                EXCEPT !.start = Len(NewOutput)]>>
            /\ ncalls' = ncalls + 1
            /\ UNCHANGED spans
       ELSE /\ status' = "done"
            /\ UNCHANGED <<stack, spans, ncalls>>
    /\ UNCHANGED <<crate, cfg, disk, ruskel, runs>>

\* render returns once render_item(root) has returned
RenderDone ==
    /\ status = "running"
    /\ stack = <<>>
    /\ status' = "done"
    /\ UNCHANGED <<crate, cfg, stack, output, spans, ncalls, disk, ruskel, runs>>

\* render_item
RenderItem ==
    /\ status = "running"
    /\ stack # <<>>
    /\ Top.fn = "render_item"
    /\ Top.st = "enter"
    /\ LET item == crate.index[Top.id] IN
       IF Skipped(item, Top.force, cfg) THEN Return(<<>>)
       ELSE IF item.kind = "Module"
            THEN Call([Top EXCEPT !.st = "tail"], "render_module", Top.id, FALSE)
       ELSE IF item.kind = "Import"
            THEN Call([Top EXCEPT !.st = "tail"], "render_import", Top.id, FALSE)
       ELSE Return(RenderLeaf(item))
    /\ UNCHANGED <<crate, cfg, disk, ruskel, runs>>

\* render_module: the header, then one child per step, then the closing brace
RenderModule ==
    /\ status = "running"
    /\ stack # <<>>
    /\ Top.fn = "render_module"
    /\ LET item == crate.index[Top.id] IN
       IF Top.st = "enter"
       THEN /\ output' = output \o VisPrefix(item) \o <<"mod ">>
                         \o RenderName(item.name) \o <<" {\n">>
            /\ stack' = SetTop([Top EXCEPT !.st = "loop", !.i = 1])
            /\ UNCHANGED <<status, spans, ncalls>>
       ELSE IF item.kind # "Module" \/ Top.i > Len(item.items)
            THEN Return(<<"}\n\n">>)
       ELSE LET child == item.items[Top.i]
                next == [Top EXCEPT !.i = Top.i + 1] IN
            IF ~Resolves(child)
            THEN /\ stack' = SetTop(next)
                 /\ UNCHANGED <<status, output, spans, ncalls>>
            ELSE IF crate.index[child].kind = "Import" /\ crate.index[child].vis = Public
                 THEN Call(next, "render_import", child, FALSE)
            ELSE Call(next, "render_item", child, FALSE)
    /\ UNCHANGED <<crate, cfg, disk, ruskel, runs>>

\* a re-export statement with the visibility of its import item
UseStatement_OwnVisibility(import) ==
    VisPrefix(import) \o <<"use ">> \o PathText(import.source) \o <<";\n">>

\* a re-export statement that never names the import's local name
UseStatement_NeverAliased(import) ==
    <<"pub use ">> \o PathText(import.source) \o <<";\n">>

\* the textual re-export statement at the end of render_import
UseStatement(import) ==
    IF import.name # LastSegment(import.source)
    THEN <<"pub use ">> \o PathText(import.source) \o <<" as ", import.name, ";\n">>
    ELSE <<"pub use ">> \o PathText(import.source) \o <<";\n">>

\* whether render_import inlines the children of a glob import's target
GlobInlined(import) ==
    /\ import.id # NoId
    /\ Resolves(import.id)
    /\ crate.index[import.id].kind = "Module"

\* a glob loop that renders the children of every visibility
GlobChildRendered_AnyVisibility(child) == Resolves(child)

\* whether the glob loop renders a child of the target module
GlobChildRendered(child) == Resolves(child) /\ crate.index[child].vis = Public

\* inlining only the targets that a private module hides
TargetInlined_OnlyIfHidden(import) ==
    /\ import.id # NoId
    /\ Resolves(import.id)
    /\ \E m \in DOMAIN crate.index :
            /\ crate.index[m].kind = "Module"
            /\ crate.index[m].vis # Public
            /\ \E k \in 1..Len(crate.index[m].items) : crate.index[m].items[k] = import.id

\* whether render_import inlines the target of a non-glob import
TargetInlined(import) == import.id # NoId /\ Resolves(import.id)

\* render_import
RenderImport ==
    /\ status = "running"
    /\ stack # <<>>
    /\ Top.fn = "render_import"
    /\ LET import == crate.index[Top.id] IN
       IF import.kind # "Import" THEN Return(<<>>)
       ELSE IF Top.st = "enter"
       THEN IF import.glob
            THEN IF GlobInlined(import)
                 THEN /\ stack' = SetTop([Top EXCEPT !.st = "loop", !.i = 1])
                      /\ UNCHANGED <<status, output, spans, ncalls>>
                 ELSE Return(<<"pub use ">> \o PathText(import.source) \o <<"::*;\n">>)
            ELSE IF TargetInlined(import)
                 THEN Call([Top EXCEPT !.st = "tail"], "render_item", import.id, TRUE)
                 ELSE Return(UseStatement(import))
       ELSE LET module == crate.index[import.id] IN
            IF Top.i > Len(module.items) THEN Return(<<>>)
            ELSE LET child == module.items[Top.i]
                     next == [Top EXCEPT !.i = Top.i + 1] IN
                 IF GlobChildRendered(child)
                 THEN Call(next, "render_item", child, TRUE)
                 ELSE /\ stack' = SetTop(next)
                      /\ UNCHANGED <<status, output, spans, ncalls>>
    /\ UNCHANGED <<crate, cfg, disk, ruskel, runs>>

Next == Render \/ RenderDone \/ RenderItem \/ RenderModule \/ RenderImport

\* the number of further calls of render on the same Renderer and Crate
MaxRuns == 1

\* render(&self, &Crate) has returned Ok(text) and is called again with the
\* same arguments: the history keeps the text, and the Crate and the flags as
\* the returned call left them
RenderAgain ==
    /\ status = "done"
    /\ Len(runs) < MaxRuns
    /\ runs' = Append(runs, [text |-> output, crate |-> crate, cfg |-> cfg])
    /\ status' = "ready"
    /\ stack' = <<>>
    /\ spans' = <<>>
    /\ ncalls' = 0
    /\ UNCHANGED <<crate, cfg, output, disk, ruskel>>

NextTwice ==
    Render \/ RenderDone \/ RenderItem \/ RenderModule \/ RenderImport \/ RenderAgain

(***************************************************************************)
(* The crates that are rendered                                            *)
(***************************************************************************)
Configs == [auto : BOOLEAN, private : BOOLEAN, blanket : BOOLEAN]

\* an id that no index holds
Missing == 99

\* the source path an import of the item `id` is written with
SourceOf(id) ==
    CASE id = 1 -> <<"crate">>
      [] id = 2 -> <<"a">>
      [] id = 3 -> <<"a", "b">>
      [] id = 4 -> <<"a", "b", "S">>
      [] id = 6 -> <<"r">>
      [] id = 7 -> <<"a", "b", "u">>
      [] id = Missing -> <<"dep", "Gone">>
      [] OTHER -> <<"std", "rc", "Rc">>

\* a crate
\*     <va> mod a { <vb> mod b { <vs> struct S; pub use <t7>; pub(crate) struct Hid; } }
\*     <v6> use <t6>;
\*     pub fn f() {}
\* whose root also lists a child that the index does not hold
TreeCrate(va, vb, vs, v6, t6, g6, t7, g7) ==
    [root |-> 1,
     index |->
        (1 :> Module("root", Public, <<2, 6, 5, Missing>>)
      @@ 2 :> Module("a", va, <<3>>)
      @@ 3 :> Module("b", vb, <<4, 7, 9>>)
      @@ 4 :> Struct("S", vs, "unit", <<>>, <<>>)
      @@ 5 :> Function("f", Public)
      @@ 6 :> Import(LastSegment(SourceOf(t6)), v6, SourceOf(t6), t6, g6)
      @@ 7 :> Import(LastSegment(SourceOf(t7)), Public, SourceOf(t7), t7, g7)
      @@ 9 :> Struct("Hid", CrateVis, "unit", <<>>, <<>>))]

TreeCrates ==
    {TreeCrate(va, vb, vs, v6, t6, g6, t7, g7) :
        va \in {Public, Default}, vb \in {Public, Default}, vs \in {Public, Default},
        v6 \in {Public, Default}, t6 \in {NoId, Missing, 1, 2, 3, 4, 7},
        g6 \in BOOLEAN, t7 \in {NoId, 1, 3, 4, 6}, g7 \in BOOLEAN}

\* no file system, and no Ruskel value: the renderer is handed its Crate
NoDisk == [dirs |-> {}, files |-> {}, workspaces |-> {}, cwd |-> <<>>]

NoRuskel == [pc |-> "none"]

\* the state after Renderer::new() and the with_* builders, before render
Start(crates) ==
    /\ disk = NoDisk
    /\ ruskel = NoRuskel
    /\ runs = <<>>
    /\ crate \in crates
    /\ cfg \in Configs
    /\ status = "ready"
    /\ stack = <<>>
    /\ output = <<>>
    /\ spans = <<>>
    /\ ncalls = 0

Init ==
    /\ Start(TreeCrates)
    \* the tree crates hold no impl block: the two impl flags are switched together
    /\ cfg.auto = cfg.blanket

Spec == Init /\ [][Next]_vars

(***************************************************************************)
(* Crates with one struct, its fields and its impl blocks                  *)
(***************************************************************************)
\* the id of the k-th field of the struct
FieldId(k) == 100 + k

FieldTypes == <<"i32", "String", "bool">>

FieldTy(k) == FieldTypes[((k - 1) % Len(FieldTypes)) + 1]

FieldNames == <<"a", "b", "c">>

FieldName(k) == FieldNames[((k - 1) % Len(FieldNames)) + 1]

\* what the crate holds for one declared field: a field item of some
\* visibility, an id the index does not hold, or (tuple structs only) None for
\* a field that rustdoc stripped
FieldChoices(skind) ==
    {Public, Default, "dangling"} \cup (IF skind = "tuple" THEN {"stripped"} ELSE {})

FieldLists(skind) ==
    UNION {[1..n -> FieldChoices(skind)] : n \in 1..MaxFields}

\* the Option<Id> list of the struct, from the choice made for each field
FieldIds(choice) ==
    [k \in 1..Len(choice) |->
        IF choice[k] = "stripped" THEN NoId
        ELSE IF choice[k] = "dangling" THEN Missing
        ELSE FieldId(k)]

FieldItems(choice) ==
    [id \in {FieldId(k) : k \in {j \in 1..Len(choice) : choice[j] \in {Public, Default}}} |->
        StructField(FieldName(id - 100), choice[id - 100], FieldTy(id - 100))]

TraitChoices ==
    {NoPath, <<"Clone">>, <<"From">>, <<"core", "borrow", "Borrow">>, <<"fmt", "Display">>,
     <<"LocalTrait">>}

\* a crate
\*     <vp> struct P <fields>
\*     impl <trait for> P { pub fn m() {}  fn p() {} }       (impl 20, which
\*                          also lists a member that the index does not hold)
\*     impl<T> UserTrait for P { fn t() {} }                  (impl 21, blanket)
\*     <vq> struct Priv;
\*     pub use std::rc::Rc;
\*     <vt> trait LocalTrait { fn lt(); }
StructCrate(vp, skind, choice, trait, synthetic, blanket, vq, vt) ==
    [root |-> 1,
     index |->
        (1 :> Module("root", Public, <<10, 11, 12, 40>>)
      @@ 10 :> Struct("P", vp, skind, FieldIds(choice), <<20, 21>>)
      @@ 11 :> Struct("Priv", vq, "unit", <<>>, <<>>)
      @@ 12 :> Import("Rc", Public, <<"std", "rc", "Rc">>, NoId, FALSE)
      @@ 20 :> Impl(trait, "P", synthetic, blanket, <<30, Missing, 31>>)
      @@ 21 :> Impl(<<"UserTrait">>, "P", FALSE, TRUE, <<32>>)
      @@ 30 :> Function("m", Public)
      @@ 31 :> Function("p", Default)
      @@ 32 :> Function("t", Default)
      @@ 40 :> Trait("LocalTrait", vt, <<41>>)
      @@ 41 :> [Function("lt", Default) EXCEPT !.hasBody = FALSE]
      @@ FieldItems(choice))]

StructCrates ==
    UNION {{StructCrate(vp, skind, choice, NoPath, FALSE, FALSE, vq, Public) :
                vp \in {Public, Default}, choice \in FieldLists(skind),
                vq \in {Default, CrateVis}} : skind \in {"tuple", "plain"}}
    \cup
    {StructCrate(vp, "unit", <<>>, trait, synthetic, blanket, Default, vt) :
        vp \in {Public, Default}, trait \in TraitChoices,
        synthetic \in BOOLEAN, blanket \in BOOLEAN, vt \in {Public, Default}}

InitStruct == Start(StructCrates)

SpecStruct == InitStruct /\ [][Next]_vars

(***************************************************************************)
(* Crates with one item of every kind                                      *)
(***************************************************************************)
\* the kinds of the item that stands once among the root's children, once
\* among an impl's members and once among a trait's members
SlotKinds ==
    {"Function", "Constant", "TypeAlias", "AssocType", "AssocConst", "Macro",
     "ProcMacro", "Static", "Union", "Variant", "StructField", "Impl"}

\* an item of the given kind, with every field its renderers read
Slot(kind, name) ==
    [Blank EXCEPT !.kind = kind, !.name = name, !.vis = Public, !.ty = "u8",
                  !.expr = "1"]

\* the variants of the enum E; rustdoc strips a #[doc(hidden)] variant, so the
\* index does not hold it
Variants(disc) ==
    (51 :> Variant("A", "plain", <<>>, disc)
  @@ 52 :> Variant("B", "tuple", <<54, NoId, 55>>, NoName)
  @@ 53 :> [Variant("C", "struct", <<56, 57>>, "3") EXCEPT !.vis = CrateVis])

\* what varies between the crates: the hidden variants of E, the discriminant
\* of its first variant, has_body of the functions, the module that declares
\* the exported macro, the kind of the slot items, the import's target, glob
\* flag, local name and visibility, and the visibility of the first field of
\* the variants B and C (rustdoc gives the fields of a variant the inherited
\* visibility)
KindBase ==
    [hidden |-> {}, disc |-> NoName, hasBody |-> TRUE, declaredIn |-> 1,
     kind |-> "Function", target |-> NoId, glob |-> FALSE, name |-> "Thing",
     fvis |-> Default, ivis |-> Public]

\* listing an exported macro among the items of the module that declares it
MacroOwner_Declaring(p) == p.declaredIn

\* the module whose items list the exported macro: rustdoc lists a
\* #[macro_export] macro among the items of the crate root, whatever module
\* declares it
MacroOwner(p) == 1

\* the items of the module m: those it declares, and the exported macro
ItemsOf(p, m, declared) ==
    declared \o (IF MacroOwner(p) = m THEN <<75>> ELSE <<>>)

\* a crate
\*     pub enum E { A <= disc>, B(i32, bool), C { x: u8, y: u8 } = 3 }
\*     impl E { pub fn on_enum() {} }                (in the impl list of E)
\*     impl T for E { fn on_trait() {} }     (in the impl lists of E and T)
\*     pub trait T { fn req(); fn dflt() {} <slot> type Out; }
\*     pub struct W;  impl W { pub fn im() {} <slot> pub fn after() {} }
\*     pub fn g() {}
\*     pub mod m { pub mod n { } macro_rules! pm {...} }
\*     <slot>
\*     pub use dep::Thing;      (target not in the index; or `use E as Thing;`
\*                               and `use E::*;`, whose target is the enum)
\*     pub const K: u8 = 7;
\*     #[macro_export] macro_rules! mac {...}      (declared in root, m or n)
KindCrate(p) ==
    [root |-> 1,
     index |->
        (1 :> Module("root", Public, ItemsOf(p, 1, <<50, 60, 65, 70, 2, 90, 80, 76>>))
      @@ 2 :> Module("m", Public, ItemsOf(p, 2, <<3, 73>>))
      @@ 3 :> Module("n", Public, ItemsOf(p, 3, <<>>))
      @@ 50 :> [Enum("E", Public, <<51, 52, 53>>) EXCEPT !.impls = <<95, 97>>]
      @@ [v \in {51, 52, 53} \ p.hidden |-> Variants(p.disc)[v]]
      @@ 54 :> StructField("0", p.fvis, "i32")
      @@ 55 :> StructField("2", Default, "bool")
      @@ 56 :> StructField("x", p.fvis, "u8")
      @@ 57 :> StructField("y", Default, "u8")
      @@ 60 :> [Trait("T", Public, <<61, 62, 91, 63, Missing>>) EXCEPT !.impls = <<97>>]
      @@ 61 :> [Function("req", Default) EXCEPT !.hasBody = p.hasBody]
      @@ 62 :> Function("dflt", Default)
      @@ 63 :> AssocType("Out", NoName)
      @@ 65 :> Struct("W", Public, "unit", <<>>, <<66>>)
      @@ 66 :> Impl(NoPath, "W", FALSE, FALSE, <<67, 92, 68>>)
      @@ 67 :> [Function("im", Public) EXCEPT !.hasBody = p.hasBody]
      @@ 68 :> Function("after", Public)
      @@ 70 :> [Function("g", Public) EXCEPT !.hasBody = p.hasBody]
      @@ 73 :> [Macro("pm", Default, "macro_rules! pm { ... }") EXCEPT !.span = 2]
      @@ 75 :> [Macro("mac", Public, "macro_rules! mac { ... }")
                    EXCEPT !.span = p.declaredIn]
      @@ 76 :> Constant("K", Public, "u8", "7")
      @@ 80 :> Import(p.name, p.ivis, IF p.target = 50 THEN <<"E">> ELSE <<"dep", "Thing">>,
                      p.target, p.glob)
      @@ 90 :> Slot(p.kind, "x")
      @@ 91 :> Slot(p.kind, "x")
      @@ 92 :> Slot(p.kind, "x")
      @@ 95 :> Impl(NoPath, "E", FALSE, FALSE, <<96>>)
      @@ 96 :> Function("on_enum", Public)
      @@ 97 :> Impl(<<"T">>, "E", FALSE, FALSE, <<98>>)
      @@ 98 :> Function("on_trait", Default))]

\* the helper attributes of a procedural macro
HelperLists == {<<>>, <<"debug_format">>, <<"first", "second">>}

\* a proc-macro crate, which exports procedural macros and nothing else:
\*     #[proc_macro...] pub fn <name>(..) -> TokenStream      (kind, helpers)
\*     #[proc_macro_attribute] pub fn route(attr, item) -> TokenStream
ProcMacroCrate(mkind, helpers, name) ==
    [root |-> 1,
     index |->
        (1 :> Module("root", Public, <<78, 79>>)
      @@ 78 :> [ProcMacro(name, Public, mkind) EXCEPT !.helpers = helpers]
      @@ 79 :> ProcMacro("route", Public, "attr"))]

ProcMacroCrates ==
    {ProcMacroCrate(mkind, helpers, name) :
        mkind \in {"derive", "attr", "bang"}, helpers \in HelperLists,
        name \in {"HelloMacro", "try"}}

KindCrates ==
    {KindCrate([KindBase EXCEPT !.hidden = h, !.disc = d]) :
        h \in SUBSET {51, 52, 53}, d \in {NoName, "0x10"}}
    \cup {KindCrate([KindBase EXCEPT !.hasBody = b]) : b \in BOOLEAN}
    \cup {KindCrate([KindBase EXCEPT !.declaredIn = m]) : m \in {1, 2, 3}}
    \cup {KindCrate([KindBase EXCEPT !.kind = k]) : k \in SlotKinds}
    \cup {KindCrate([KindBase EXCEPT !.target = t, !.glob = g, !.name = n]) :
            t \in {NoId, Missing}, g \in BOOLEAN, n \in {"Thing", "Alias"}}
    \* an import that is not public: of an external item, or of the enum E
    \cup {KindCrate([KindBase EXCEPT !.ivis = Default, !.target = t, !.glob = g]) :
            t \in {NoId, 50}, g \in BOOLEAN}
    \* a Crate value whose variant fields are marked public
    \cup {KindCrate([KindBase EXCEPT !.fvis = Public, !.disc = d]) : d \in {NoName, "0x10"}}
    \* an impl block among the items of the root, and as the target of the import
    \cup {KindCrate([KindBase EXCEPT !.kind = "Impl", !.target = t, !.glob = g]) :
            t \in {66, 95}, g \in BOOLEAN}
    \* a crate whose root id the index does not hold
    \cup {[KindCrate(KindBase) EXCEPT !.root = Missing]}
    \cup ProcMacroCrates

InitKinds ==
    /\ Start(KindCrates)
    \* no impl of these crates is synthetic or blanket
    /\ cfg.auto = cfg.blanket

SpecKinds == InitKinds /\ [][Next]_vars

(***************************************************************************)
(* Rendering the same crate more than once                                 *)
(***************************************************************************)
\* every modelled crate, under every configuration of the three flags
InitTwice == Start(TreeCrates \cup StructCrates \cup KindCrates)

SpecTwice == InitTwice /\ [][NextTwice]_vars

(***************************************************************************)
(* Crates of function signatures                                           *)
(***************************************************************************)
\* how deep the modelled types nest
MaxTypeDepth == 2

\* the types that hold no other type
LeafTypes ==
    {Generic("Self"), Generic("T"), ResolvedPath("Self"), Primitive("u8"),
     DynTrait(<<"std::any::Any">>, NoLifetime),
     DynTrait(<<"std::any::Any", "Send">>, "'static")}

\* the types that hold a type of the set `types` directly
TypesAround(types) ==
    {BorrowedRef(lt, m, ty) : lt \in {NoLifetime, "'a"}, m \in BOOLEAN, ty \in types}
    \cup {RawPointer(FALSE, ty) : ty \in types}
    \cup {Slice(ty) : ty \in types}
    \cup {Array(ty, "4") : ty \in types}
    \cup {TupleType(<<ty, Primitive("u8")>>) : ty \in types}
    \cup {TupleType(<<Primitive("u8"), ty>>) : ty \in types}
    \cup {ResolvedPathWith("Box", <<ty>>) : ty \in types}
    \cup {QualifiedPath("Item", ty, trait) : ty \in types, trait \in {"", "Iterator"}}
    \cup {FunctionPointer(<<ty>>, <<>>) : ty \in types}
    \cup {FunctionPointer(<<>>, <<ty>>) : ty \in types}

RECURSIVE TypesWithin(_)
\* the types that nest to depth d at most
TypesWithin(d) ==
    IF d = 0 THEN LeafTypes
    ELSE LeafTypes \cup TypesAround(TypesWithin(d - 1))

\* the signatures: one parameter, named `self` or not, of every type; a
\* `self` parameter of the simplest types followed by another parameter; and
\* every return type
Signatures ==
    {FnDecl(<<[name |-> name, ty |-> ty]>>, <<>>) :
        name \in {"self", "value"}, ty \in TypesWithin(MaxTypeDepth)}
    \cup {FnDecl(<<[name |-> "self", ty |-> ty],
                   [name |-> "other", ty |-> Primitive("u8")]>>, <<>>) :
            ty \in TypesWithin(1)}
    \cup {FnDecl(<<>>, <<ty>>) : ty \in TypesWithin(MaxTypeDepth)}

\* the crate of
\*     pub trait WithSelfType { fn method<decl>; }
SignatureCrate(decl) ==
    [root |-> 1,
     index |->
        (1 :> Module("root", Public, <<60>>)
      @@ 60 :> Trait("WithSelfType", Public, <<61>>)
      @@ 61 :> FunctionWith("method", Default, decl, FALSE))]

SignatureCrates == {SignatureCrate(decl) : decl \in Signatures}

\* these crates hold no import
NextSignatures == Render \/ RenderDone \/ RenderItem \/ RenderModule

\* these crates hold no impl block and no private item
InitSignatures ==
    /\ Start(SignatureCrates)
    /\ ~cfg.auto
    /\ ~cfg.blanket
    /\ ~cfg.private

SpecSignatures == InitSignatures /\ [][NextSignatures]_vars

(***************************************************************************)
(* Reading the history and the text                                        *)
(***************************************************************************)
\* the text a returned call produced
Text(s) == SubSeq(output, s.from + 1, s.to)

\* the returned calls that the call number c made, in call order
Kids(c) == SelectSeq(spans, LAMBDA s : s.parent = c)

\* the returned calls, as a set
Returned == {spans[k] : k \in 1..Len(spans)}

\* the positions at which `pat` occurs in `text`
Occurrences(text, pat) ==
    {k \in 1..(Len(text) - Len(pat) + 1) : SubSeq(text, k, k + Len(pat) - 1) = pat}

Contains(text, pat) == Occurrences(text, pat) # {}

\* the position of the first token `tok` of `text`, 0 if there is none
FirstPos(text, tok) ==
    IF \E k \in 1..Len(text) : text[k] = tok
    THEN CHOOSE k \in 1..Len(text) :
            text[k] = tok /\ \A j \in 1..(k - 1) : text[j] # tok
    ELSE 0

\* the tokens of `text` between its first `open` and the first `close` after it
Between(text, open, close) ==
    LET o == FirstPos(text, open)
        rest == SubSeq(text, o + 1, Len(text))
        c == FirstPos(rest, close)
    IN  SubSeq(rest, 1, c - 1)

RECURSIVE Split(_, _)
\* the pieces of `text` that the separator token `sep` separates
Split(text, sep) ==
    LET p == FirstPos(text, sep) IN
    IF p = 0 THEN <<text>>
    ELSE <<SubSeq(text, 1, p - 1)>> \o Split(SubSeq(text, p + 1, Len(text)), sep)

\* the module that lists `id` among its items, NoId if none does
ParentOf(id) ==
    IF \E m \in DOMAIN crate.index :
            crate.index[m].kind = "Module"
            /\ \E k \in 1..Len(crate.index[m].items) : crate.index[m].items[k] = id
    THEN CHOOSE m \in DOMAIN crate.index :
            crate.index[m].kind = "Module"
            /\ \E k \in 1..Len(crate.index[m].items) : crate.index[m].items[k] = id
    ELSE NoId

RECURSIVE Ancestors(_)
\* the modules on the owning chain of `id`, from its parent up to the root
Ancestors(id) ==
    IF id = crate.root \/ ParentOf(id) = NoId THEN {}
    ELSE {ParentOf(id)} \cup Ancestors(ParentOf(id))

(***************************************************************************)
(* Claims                                                                  *)
(***************************************************************************)
\* the call s did nothing but make the one call fn(s.id) and return its text
Dispatched(s, fn) ==
    LET kids == Kids(s.cid) IN
    /\ Len(kids) = 1
    /\ kids[1].fn = fn
    /\ kids[1].id = s.id
    /\ Text(kids[1]) = Text(s)
    /\ kids[1].from = s.from

\* some non-glob import of the crate has `id` as its target
IsImportTarget(id) ==
    \E j \in DOMAIN crate.index :
        /\ crate.index[j].kind = "Import"
        /\ ~crate.index[j].glob
        /\ crate.index[j].id = id

\* C1: render_item(item, force) returns empty text, and calls nothing, when the
\* item is not Public, force is false and render_private_items is false; in
\* every other case a module goes to render_module, an import to render_import
\* and a struct or function to its renderer, whose declaration is the text.
\* Hence without render_private_items a non-public item that no import names
\* as its target contributes no text, however often it is reached.
C1_VisibilityPolicy ==
    /\ \A s \in Returned :
        s.fn = "render_item" =>
            LET item == crate.index[s.id] IN
            IF item.vis # Public /\ ~s.force /\ ~cfg.private
            THEN Text(s) = <<>> /\ Kids(s.cid) = <<>>
            ELSE CASE item.kind = "Module" -> Dispatched(s, "render_module")
                   [] item.kind = "Import" -> Dispatched(s, "render_import")
                   [] item.kind = "Struct" ->
                        /\ Kids(s.cid) = <<>>
                        /\ Occurrences(Text(s), <<"struct ", item.name>>)
                                = {1 + Len(VisPrefix(item))}
                   [] item.kind = "Function" ->
                        /\ Kids(s.cid) = <<>>
                        /\ Occurrences(Text(s), <<"fn ", item.name>>)
                                = {1 + Len(VisPrefix(item))}
                   [] OTHER -> TRUE
    /\ ~cfg.private =>
        \A id \in DOMAIN crate.index :
            (crate.index[id].vis # Public /\ ~IsImportTarget(id)) =>
                \A s \in Returned : s.id = id => Text(s) = <<>>

\* C1 witness: a finished rendering under default options in which a
\* non-public module child was reached and skipped, and a non-public item was
\* rendered because an import forced it
C1_Witness ==
    /\ status = "done"
    /\ ~cfg.private
    /\ \E s \in Returned :
        /\ s.fn = "render_item" /\ ~s.force
        /\ crate.index[s.id].vis # Public
        /\ Text(s) = <<>>
    /\ \E s \in Returned :
        /\ s.fn = "render_item" /\ s.force
        /\ crate.index[s.id].vis # Public
        /\ Text(s) # <<>>

\* the tokens that open the declaration of an item
DeclOf(id) ==
    LET item == crate.index[id] IN
    CASE item.kind = "Module" -> <<"mod ", item.name>>
      [] item.kind = "Struct" -> <<"struct ", item.name>>
      [] item.kind = "Function" -> <<"fn ", item.name>>
      [] OTHER -> <<"?", item.name>>

\* the import j re-exports the item x: by naming it, or by a glob over the
\* module that holds it when x is public
Exposes(j, x) ==
    LET import == crate.index[j] IN
    /\ import.kind = "Import"
    /\ \/ ~import.glob /\ import.id = x
       \/ /\ import.glob
          /\ import.id \in DOMAIN crate.index
          /\ crate.index[import.id].kind = "Module"
          /\ \E k \in 1..Len(crate.index[import.id].items) :
                crate.index[import.id].items[k] = x
          /\ crate.index[x].vis = Public

\* j is a public import at a place that only public modules lead to
VisibleReExport(j) ==
    /\ crate.index[j].kind = "Import"
    /\ crate.index[j].vis = Public
    /\ \A m \in Ancestors(j) : crate.index[m].vis = Public

\* x sits below at least one non-public module, and exactly one import
\* re-exports it, from a visible place
HiddenButReExported(x, j) ==
    /\ crate.index[x].kind \in {"Struct", "Function", "Module"}
    /\ \E m \in Ancestors(x) : crate.index[m].vis # Public
    /\ VisibleReExport(j)
    /\ \A i \in DOMAIN crate.index : Exposes(i, x) <=> i = j

PublicChildren(m) ==
    SelectSeq(m.items, LAMBDA c : c \in DOMAIN crate.index /\ crate.index[c].vis = Public)

\* C3: a returned render_import call on a glob import whose target resolves to
\* a module called render_item with force set on exactly the public children
\* of that module, in declared order, and its text is the concatenation of
\* their texts: no `use` statement of its own and nothing for the other
\* children.
C3_GlobInline ==
    \A s \in Returned :
        (/\ s.fn = "render_import"
         /\ crate.index[s.id].kind = "Import"
         /\ crate.index[s.id].glob
         /\ crate.index[s.id].id \in DOMAIN crate.index
         /\ crate.index[crate.index[s.id].id].kind = "Module") =>
            LET pub == PublicChildren(crate.index[crate.index[s.id].id])
                kids == Kids(s.cid)
            IN  /\ Len(kids) = Len(pub)
                /\ \A k \in 1..Len(kids) :
                    /\ kids[k].fn = "render_item"
                    /\ kids[k].id = pub[k]
                    /\ kids[k].force
                    /\ kids[k].from = (IF k = 1 THEN s.from ELSE kids[k - 1].to)
                /\ Text(s) = Concat([k \in 1..Len(kids) |-> Text(kids[k])])

\* C3 witness: a finished rendering in which a public glob import of a module
\* with a public and a non-public struct returned the public one's declaration
C3_Witness ==
    /\ status = "done"
    /\ \E s \in Returned :
        /\ s.fn = "render_import"
        /\ crate.index[s.id].glob
        /\ crate.index[s.id].vis = Public
        /\ crate.index[s.id].id \in DOMAIN crate.index
        /\ LET m == crate.index[crate.index[s.id].id] IN
            /\ m.kind = "Module"
            /\ \E k \in 1..Len(m.items) :
                m.items[k] \in DOMAIN crate.index
                /\ crate.index[m.items[k]].vis # Public
            /\ Len(PublicChildren(m)) >= 2
        /\ Contains(Text(s), <<"pub ", "struct ">>)
        /\ ~Contains(Text(s), <<"struct ", "Hid">>)

\* the call s inlined the target of its import: its one call is
\* render_item(target, force = true) and its text is that call's text
Inlined(s) ==
    LET kids == Kids(s.cid) IN
    /\ Len(kids) = 1
    /\ kids[1].fn = "render_item"
    /\ kids[1].id = crate.index[s.id].id
    /\ kids[1].force
    /\ Text(kids[1]) = Text(s)

\* the call s emitted one re-export statement and called nothing
ReExported(s) ==
    /\ Kids(s.cid) = <<>>
    /\ Text(s) # <<>>
    /\ Text(s)[1] = "pub use "
    /\ Text(s)[Len(Text(s))] = ";\n"
    /\ Cardinality(Occurrences(Text(s), <<"pub use ">>)) = 1

\* s is a returned render_import call on a non-glob import
NonGlobImportCall(s) ==
    /\ s.fn = "render_import"
    /\ crate.index[s.id].kind = "Import"
    /\ ~crate.index[s.id].glob

\* the target of the import resolves in the index
TargetResolves(import) == import.id # NoId /\ import.id \in DOMAIN crate.index

\* C4 as claimed: a public non-glob import whose target resolves is inlined
\* only when a module on the target's owning chain is non-public, and is
\* emitted as a re-export statement when that chain is entirely public.
C4_InlineOnlyIfHidden ==
    \A s \in Returned :
        (/\ NonGlobImportCall(s)
         /\ crate.index[s.id].vis = Public
         /\ TargetResolves(crate.index[s.id])) =>
            IF \A m \in Ancestors(crate.index[s.id].id) : crate.index[m].vis = Public
            THEN ReExported(s)
            ELSE Inlined(s)

\* C4 amended: a non-glob import whose target resolves is always inlined with
\* force set, whatever the visibility of the target's owning modules; it is
\* emitted as a re-export statement exactly when its target is absent or does
\* not resolve.
C4_InlineWheneverResolved ==
    \A s \in Returned :
        NonGlobImportCall(s) =>
            IF TargetResolves(crate.index[s.id]) THEN Inlined(s) ELSE ReExported(s)

\* C4 witness: a finished rendering in which a public import of a public
\* struct in public modules was inlined as the struct's declaration
C4_Witness ==
    /\ status = "done"
    /\ \E s \in Returned :
        /\ NonGlobImportCall(s)
        /\ crate.index[s.id].vis = Public
        /\ TargetResolves(crate.index[s.id])
        /\ crate.index[crate.index[s.id].id].kind = "Struct"
        /\ \A m \in Ancestors(crate.index[s.id].id) : crate.index[m].vis = Public
        /\ Text(s) = <<"pub ", "struct ", crate.index[crate.index[s.id].id].name, ";\n\n">>

\* C5: render terminates for every finite crate, also when imports make the
\* module graph cyclic: the recursion never runs the stack out.
C5_Terminates == status # "overflow"

\* s is a returned render_item call on a struct that was not skipped
StructCall(s) ==
    /\ s.fn = "render_item"
    /\ crate.index[s.id].kind = "Struct"
    /\ ~(crate.index[s.id].vis # Public /\ ~s.force /\ ~cfg.private)

\* every field slot of the struct holds the id of a field item of the index
AllDeclared(item) ==
    \A k \in 1..Len(item.items) :
        /\ item.items[k] \in DOMAIN crate.index
        /\ crate.index[item.items[k]].kind = "StructField"

\* the k-th field item of a struct
FieldOf(item, k) == crate.index[item.items[k]]

\* the field list of a rendered tuple struct, cut at its separators
TupleSlots(text) == Split(Between(text, "(", ")"), ", ")

\* the field list of a rendered plain struct
PlainBody(text) == Between(text, " {\n", "}\n\n")

\* C6: without render_private_items, a rendered tuple struct whose N >= 1
\* declared fields are all field items of the index has exactly N slots
\* between its parentheses, in declared order: `pub <type>` for a public
\* field and the placeholder `_` for every other one.
C6_TupleArity ==
    \A s \in Returned :
        (/\ StructCall(s)
         /\ ~cfg.private
         /\ crate.index[s.id].skind = "tuple"
         /\ Len(crate.index[s.id].items) >= 1
         /\ AllDeclared(crate.index[s.id])) =>
            LET item == crate.index[s.id]
                slots == TupleSlots(Text(s))
            IN  /\ Len(slots) = Len(item.items)
                /\ \A k \in 1..Len(item.items) :
                    slots[k] = IF FieldOf(item, k).vis = Public
                               THEN <<"pub ", FieldOf(item, k).ty>>
                               ELSE <<"_">>

\* C6 witness: a finished default rendering of a public tuple struct with a
\* public, a private and a public field
C6_Witness ==
    /\ status = "done"
    /\ cfg = [auto |-> FALSE, private |-> FALSE, blanket |-> FALSE]
    /\ \E s \in Returned :
        /\ StructCall(s)
        /\ crate.index[s.id].skind = "tuple"
        /\ AllDeclared(crate.index[s.id])
        /\ Contains(Text(s), <<"(", "pub ", "i32", ", ", "_", ", ", "pub ", "bool", ")">>)

\* s is a returned render_item call, without render_private_items, on a public
\* struct of the given shape whose N >= 1 fields are all non-public field items
AllPrivateStructCall(s, skind) ==
    /\ StructCall(s)
    /\ ~cfg.private
    /\ crate.index[s.id].vis = Public
    /\ crate.index[s.id].skind = skind
    /\ Len(crate.index[s.id].items) >= 1
    /\ AllDeclared(crate.index[s.id])
    /\ \A k \in 1..Len(crate.index[s.id].items) :
            FieldOf(crate.index[s.id], k).vis # Public

\* the struct of the call s was rendered: its text opens with its declaration
Declared(s) ==
    /\ Len(Text(s)) >= 3
    /\ SubSeq(Text(s), 1, 3) = <<"pub ", "struct ", crate.index[s.id].name>>

\* C7 as claimed: with render_private_items off, a public tuple or plain
\* struct whose fields are all non-public is rendered and its field list is
\* empty.
C7_AllPrivateEmpty ==
    \A s \in Returned :
        /\ AllPrivateStructCall(s, "plain") =>
                Declared(s) /\ PlainBody(Text(s)) = <<>>
        /\ AllPrivateStructCall(s, "tuple") =>
                Declared(s) /\ Between(Text(s), "(", ")") = <<>>

\* C7 amended: with render_private_items off, a public struct whose fields
\* are all non-public is rendered; the field list of a plain struct is
\* empty, and the field list of a tuple struct holds one placeholder `_` for
\* each of the N fields.
C7_AllPrivateFields ==
    \A s \in Returned :
        /\ AllPrivateStructCall(s, "plain") =>
                Declared(s) /\ PlainBody(Text(s)) = <<>>
        /\ AllPrivateStructCall(s, "tuple") =>
                /\ Declared(s)
                /\ Between(Text(s), "(", ")")
                    = Join([k \in 1..Len(crate.index[s.id].items) |-> <<"_">>], ", ")

\* C7 witness: the finished rendering of `pub struct P(String, i32)`-like
\* tuple struct with two private fields, whose field list is `_, _`
C7_Witness ==
    /\ status = "done"
    /\ \E s \in Returned :
        /\ AllPrivateStructCall(s, "tuple")
        /\ Len(crate.index[s.id].items) = 2
        /\ Contains(Text(s), <<"pub ", "struct ", "P", "(", "_", ", ", "_", ")">>)

\* C8: without render_private_items, the body of a rendered plain struct is
\* its public fields in declared order, each as `pub <name>: <type>,`, with
\* nothing in the place of a non-public field; and the finished output does
\* not mention the name of any non-public struct.
C8_PlainFields ==
    /\ \A s \in Returned :
        (/\ StructCall(s)
         /\ ~cfg.private
         /\ crate.index[s.id].skind = "plain"
         /\ AllDeclared(crate.index[s.id])) =>
            LET item == crate.index[s.id] IN
            PlainBody(Text(s)) =
                Concat([k \in 1..Len(item.items) |->
                    IF FieldOf(item, k).vis = Public
                    THEN <<"pub ", FieldOf(item, k).name, ": ", FieldOf(item, k).ty, ",\n">>
                    ELSE <<>>])
    /\ (status = "done" /\ ~cfg.private) =>
        \A x \in DOMAIN crate.index :
            (crate.index[x].kind = "Struct" /\ crate.index[x].vis # Public) =>
                \A k \in 1..Len(output) : output[k] # crate.index[x].name

\* C8 witness: the finished default rendering of
\* `pub struct P { pub a: i32, b: String }` beside a private struct Priv
C8_Witness ==
    /\ status = "done"
    /\ cfg = [auto |-> FALSE, private |-> FALSE, blanket |-> FALSE]
    /\ crate.index[11].kind = "Struct" /\ crate.index[11].vis # Public
    /\ \E s \in Returned :
        /\ StructCall(s)
        /\ Len(crate.index[s.id].items) = 2
        /\ AllDeclared(crate.index[s.id])
        /\ FieldOf(crate.index[s.id], 2).vis # Public
        /\ Contains(Text(s),
                <<"pub ", "struct ", "P", " {\n", "pub ", "a", ": ", "i32", ",\n", "}\n\n">>)

\* the rows of the decision table that suppress an impl
Suppressed(impl_, c) ==
    \/ impl_.synthetic /\ ~c.auto
    \/ impl_.blanket /\ ~c.blanket
    \/ /\ ~c.auto
       /\ impl_.blanket
       /\ impl_.trait # NoPath
       /\ impl_.trait[Len(impl_.trait)] \in FILTERED_TRAITS

\* the tokens that open the block of an impl
ImplHeader(impl_) ==
    <<"impl", " ">>
    \o (IF impl_.trait # NoPath THEN PathText(impl_.trait) \o <<" for ">> ELSE <<>>)
    \o <<impl_.ty, " {\n">>

\* C9: should_render_impl is false exactly for a synthetic impl without
\* render_auto_impls, a blanket impl without render_blanket_impls, and a
\* blanket impl of a trait whose last path segment is denylisted without
\* render_auto_impls; and a rendered struct's text holds the block of each of
\* its impls exactly when none of the three applies.
C9_DecisionTable ==
    /\ \A i \in DOMAIN crate.index :
        crate.index[i].kind = "Impl" =>
            (ShouldRenderImpl(crate.index[i], cfg) <=> ~Suppressed(crate.index[i], cfg))
    /\ \A s \in Returned :
        StructCall(s) =>
            \A k \in 1..Len(crate.index[s.id].impls) :
                LET i == crate.index[s.id].impls[k] IN
                (i \in DOMAIN crate.index /\ crate.index[i].kind = "Impl") =>
                    (Contains(Text(s), ImplHeader(crate.index[i]))
                        <=> ~Suppressed(crate.index[i], cfg))

\* C9 witness: a finished rendering, with no flag set, of a struct with a
\* hand-written impl of the denylisted trait From, whose block is in the text
C9_Witness ==
    /\ status = "done"
    /\ cfg = [auto |-> FALSE, private |-> FALSE, blanket |-> FALSE]
    /\ \E s \in Returned :
        /\ StructCall(s)
        /\ \E k \in 1..Len(crate.index[s.id].impls) :
            LET impl_ == crate.index[crate.index[s.id].impls[k]] IN
            /\ impl_.trait = <<"From">>
            /\ ~impl_.synthetic /\ ~impl_.blanket
            /\ Contains(Text(s), <<"impl", " ", "From", " for ", "P", " {\n">>)

\* the traits that the claim names as denylisted
NamedDenylisted == {"From", "Into", "Borrow", "Any", "ToOwned"}

\* C10: with render_blanket_impls on and render_auto_impls off, the finished
\* output holds no block of a blanket impl, over a public struct, of a trait
\* whose name ends in From, Into, Borrow, Any or ToOwned, and it holds the
\* block of the hand-written blanket impl of UserTrait over the same struct,
\* after the struct's declaration.
C10_DenylistSuppression ==
    (status = "done" /\ cfg.blanket /\ ~cfg.auto) =>
        \A p \in DOMAIN crate.index :
            (/\ crate.index[p].kind = "Struct"
             /\ crate.index[p].vis = Public
             /\ ParentOf(p) = crate.root) =>
                \A k \in 1..Len(crate.index[p].impls) :
                    LET impl_ == crate.index[crate.index[p].impls[k]] IN
                    /\ (/\ impl_.blanket
                        /\ impl_.trait # NoPath
                        /\ impl_.trait[Len(impl_.trait)] \in NamedDenylisted) =>
                            ~Contains(output, ImplHeader(impl_))
                    /\ (/\ impl_.blanket
                        /\ ~impl_.synthetic
                        /\ impl_.trait = <<"UserTrait">>) =>
                            /\ Contains(output, ImplHeader(impl_))
                            /\ \A i \in Occurrences(output, ImplHeader(impl_)),
                                  j \in Occurrences(output, DeclOf(p)) : j < i

\* C10 witness: such a finished rendering of a struct with a blanket impl of
\* core::borrow::Borrow and one of UserTrait
C10_Witness ==
    /\ status = "done"
    /\ cfg.blanket /\ ~cfg.auto
    /\ crate.index[10].vis = Public
    /\ crate.index[20].blanket
    /\ crate.index[20].trait = <<"core", "borrow", "Borrow">>
    /\ Contains(output, <<"pub ", "struct ", "P", ";\n\n", "impl", " ", "UserTrait", " for ", "P">>)
    /\ ~Contains(output, <<"Borrow">>)

\* the members of the block that `text` holds for the impl: the tokens from
\* the block's header to the brace that closes it
ImplBlock(text, impl_) ==
    LET h == CHOOSE k \in Occurrences(text, ImplHeader(impl_)) : TRUE
        rest == SubSeq(text, h + Len(ImplHeader(impl_)), Len(text))
    IN  SubSeq(rest, 1, FirstPos(rest, "}\n\n") - 1)

\* the impls of the struct of the call s whose block the text of s holds
EmittedImpls(s) ==
    {i \in {crate.index[s.id].impls[k] : k \in 1..Len(crate.index[s.id].impls)} :
        /\ i \in DOMAIN crate.index
        /\ crate.index[i].kind = "Impl"
        /\ Contains(Text(s), ImplHeader(crate.index[i]))}

\* the declaration of a function that is a member of an impl
MemberDecl(f) ==
    (IF f.vis = Public THEN <<"pub ">> ELSE <<>>) \o <<"fn ", f.name, "(", ")", " {}\n\n">>

\* C11: in the block of an emitted impl, every listed function that resolves
\* is declared when the impl implements a trait, whatever its visibility and
\* whatever render_private_items is; in the block of an inherent impl a
\* listed function is declared if and only if render_private_items is on or
\* the function is Public.  The block holds nothing else.
C11_ImplMembers ==
    \A s \in Returned :
        StructCall(s) =>
            \A i \in EmittedImpls(s) :
                LET impl_ == crate.index[i]
                    block == ImplBlock(Text(s), impl_)
                    listed == SelectSeq(impl_.items, LAMBDA m :
                                m \in DOMAIN crate.index
                                /\ crate.index[m].kind = "Function")
                    wanted == SelectSeq(listed, LAMBDA m :
                                \/ impl_.trait # NoPath
                                \/ cfg.private
                                \/ crate.index[m].vis = Public)
                IN  /\ \A k \in 1..Len(listed) :
                        Contains(block, MemberDecl(crate.index[listed[k]]))
                            <=> (\/ impl_.trait # NoPath
                                 \/ cfg.private
                                 \/ crate.index[listed[k]].vis = Public)
                    /\ block = Concat([k \in 1..Len(wanted) |->
                                            MemberDecl(crate.index[wanted[k]])])

\* C11 witness: a finished rendering without render_private_items that holds
\* the block of a trait impl with its public and its private member
C11_Witness ==
    /\ status = "done"
    /\ ~cfg.private
    /\ crate.index[20].trait = <<"fmt", "Display">>
    /\ Contains(output, <<"impl", " ", "fmt", "::", "Display", " for ", "P", " {\n",
                          "pub ", "fn ", "m", "(", ")", " {}\n\n",
                          "fn ", "p", "(", ")", " {}\n\n", "}\n\n">>)

\* the trait items of the index that the impl's trait path names
TraitsOf(impl_) ==
    {t \in DOMAIN crate.index :
        /\ crate.index[t].kind = "Trait"
        /\ impl_.trait # NoPath
        /\ crate.index[t].name = impl_.trait[Len(impl_.trait)]}

\* the impl i is a hand-written impl of a trait of the crate that is not Public
PrivateTraitImpl(i) ==
    /\ i \in DOMAIN crate.index
    /\ crate.index[i].kind = "Impl"
    /\ ~crate.index[i].synthetic
    /\ ~crate.index[i].blanket
    /\ \E t \in TraitsOf(crate.index[i]) : crate.index[t].vis # Public

\* C12: under default options the finished output holds the declaration of a
\* public struct and no block of its hand-written impl of a non-public trait.
C12_PrivateTraitImplAbsent ==
    (/\ status = "done"
     /\ cfg = [auto |-> FALSE, private |-> FALSE, blanket |-> FALSE]) =>
        \A p \in DOMAIN crate.index :
            (/\ crate.index[p].kind = "Struct"
             /\ crate.index[p].vis = Public
             /\ ParentOf(p) = crate.root) =>
                /\ Contains(output, DeclOf(p))
                /\ \A k \in 1..Len(crate.index[p].impls) :
                    PrivateTraitImpl(crate.index[p].impls[k]) =>
                        ~Contains(output, ImplHeader(crate.index[crate.index[p].impls[k]]))

\* s is a returned render_item call on an enum that was not skipped
EnumCall(s) ==
    /\ s.fn = "render_item"
    /\ crate.index[s.id].kind = "Enum"
    /\ ~(crate.index[s.id].vis # Public /\ ~s.force /\ ~cfg.private)

\* the variants of an enum that are not hidden: rustdoc strips a variant that
\* carries #[doc(hidden)], so the hidden variants are those the index lacks
ShownVariants(e) == SelectSeq(e.items, LAMBDA v : v \in DOMAIN crate.index)

\* the tokens that open the line of a variant, and those that close it
VariantHead(v) == <<"    ", crate.index[v].name>>

VariantEnd(v) ==
    IF crate.index[v].discriminant # NoName
    THEN <<" = ", crate.index[v].discriminant, ",\n">>
    ELSE <<",\n">>

\* C13: the text of a rendered public enum is its header, one line per
\* variant that is not hidden, in declared order, and the closing brace; a
\* hidden variant leaves nothing, whatever its visibility.  Each line opens
\* with the variant's name and closes with ` = <discriminant>,` when the
\* variant has an explicit discriminant and with `,` alone when it has none.
C13_HiddenVariants ==
    \A s \in Returned :
        (EnumCall(s) /\ crate.index[s.id].vis = Public) =>
            LET e == crate.index[s.id]
                text == Text(s)
                shown == ShownVariants(e)
                n == Len(shown)
                pos == [k \in 1..n |->
                            IF Contains(text, VariantHead(shown[k]))
                            THEN CHOOSE q \in Occurrences(text, VariantHead(shown[k])) : TRUE
                            ELSE 0]
                line == [k \in 1..n |->
                            SubSeq(text, pos[k],
                                   IF k < n THEN pos[k + 1] - 1 ELSE Len(text) - 1)]
            IN  /\ SubSeq(text, 1, 4) = <<"pub ", "enum ", e.name, " {\n">>
                /\ text[Len(text)] = "}\n\n"
                /\ Cardinality({q \in 1..Len(text) : text[q] = "    "}) = n
                /\ \A k \in 1..n :
                    /\ Cardinality(Occurrences(text, VariantHead(shown[k]))) = 1
                    /\ pos[k] = IF k = 1 THEN 5 ELSE pos[k - 1] + Len(line[k - 1])
                    /\ Len(line[k]) >= Len(VariantEnd(shown[k]))
                    /\ SubSeq(line[k], Len(line[k]) - Len(VariantEnd(shown[k])) + 1,
                              Len(line[k])) = VariantEnd(shown[k])
                    /\ Cardinality({q \in 1..Len(line[k]) : line[k][q] = " = "})
                        = IF crate.index[shown[k]].discriminant # NoName THEN 1 ELSE 0

\* C13 witness: a finished rendering of the enum E whose second variant is
\* hidden and whose first variant has the discriminant 0x10
C13_Witness ==
    /\ status = "done"
    /\ 52 \notin DOMAIN crate.index
    /\ \E s \in Returned :
        /\ EnumCall(s)
        /\ Len(crate.index[s.id].items) = 3
        /\ Contains(Text(s), <<"pub ", "enum ", "E", " {\n",
                               "    ", "A", " = ", "0x10", ",\n", "    ", "C">>)

\* s is a returned render_item call on an item of the kind that was not skipped
KindCall(s, kind) ==
    /\ s.fn = "render_item"
    /\ crate.index[s.id].kind = kind
    /\ ~(crate.index[s.id].vis # Public /\ ~s.force /\ ~cfg.private)

\* the tokens that end the declarations of the function `name` in `text`
FnEnds(text, name) ==
    {text[q + 4] : q \in {o \in Occurrences(text, <<"fn ", name, "(", ")">>) :
                            o + 4 <= Len(text)}}

\* the functions among the members that the item lists and the index holds
MemberFunctions(item) ==
    {m \in {item.items[k] : k \in 1..Len(item.items)} :
        m \in DOMAIN crate.index /\ crate.index[m].kind = "Function"}

\* C14: every function declaration of the output ends with the stub `{}` or
\* with `;`.  A member of a rendered trait declaration ends with `;` exactly
\* when it has no default body; a function rendered at module level and a
\* function rendered as a member of an impl block end with `{}`, whatever
\* has_body is.
C14_BodyStripping ==
    /\ \A q \in 1..Len(output) :
        output[q] = "fn " =>
            /\ q + 4 <= Len(output)
            /\ output[q + 4] \in {" {}\n\n", ";\n\n"}
    /\ \A s \in Returned :
        /\ KindCall(s, "Function") =>
                FnEnds(Text(s), crate.index[s.id].name) = {" {}\n\n"}
        /\ KindCall(s, "Trait") =>
                \A m \in MemberFunctions(crate.index[s.id]) :
                    FnEnds(Text(s), crate.index[m].name) =
                        {IF crate.index[m].hasBody THEN " {}\n\n" ELSE ";\n\n"}
        /\ KindCall(s, "Struct") =>
                \A i \in EmittedImpls(s) :
                    \A m \in MemberFunctions(crate.index[i]) :
                        ImplMemberIncluded(crate.index[i], crate.index[m], cfg) =>
                            FnEnds(ImplBlock(Text(s), crate.index[i]), crate.index[m].name)
                                = {" {}\n\n"}

\* C14 witness: a finished rendering of a crate whose functions have no body:
\* the trait's required method ends in `;`, its default method, the impl's
\* method and the module-level function end in `{}`
C14_Witness ==
    /\ status = "done"
    /\ Resolves(crate.root) /\ Resolves(61)
    /\ ~crate.index[61].hasBody /\ ~crate.index[67].hasBody /\ ~crate.index[70].hasBody
    /\ Contains(output, <<"fn ", "req", "(", ")", ";\n\n", "fn ", "dflt", "(", ")", " {}\n\n">>)
    /\ Contains(output, <<"impl", " ", "W", " {\n", "pub ", "fn ", "im", "(", ")", " {}\n\n">>)
    /\ Contains(output, <<"pub ", "fn ", "g", "(", ")", " {}\n\n">>)

\* the returned call that made the call s
Caller(s) == CHOOSE c \in Returned : c.cid = s.parent

\* the exported macros of the crate: the public macros that a module lists
ExportedMacros ==
    {x \in DOMAIN crate.index :
        /\ crate.index[x].kind = "Macro"
        /\ crate.index[x].vis = Public
        /\ ParentOf(x) # NoId}

RECURSIVE SumSeq(_)
\* the sum of a sequence of numbers
SumSeq(q) == IF q = <<>> THEN 0 ELSE Head(q) + SumSeq(Tail(q))

RECURSIVE SetToSeq(_)
\* the elements of a set of numbers, in ascending order
SetToSeq(S) ==
    IF S = {} THEN <<>>
    ELSE LET m == CHOOSE x \in S : \A y \in S : x <= y
         IN  <<m>> \o SetToSeq(S \ {m})

\* how often the module m lists x
Listings(m, x) ==
    Cardinality({k \in 1..Len(crate.index[m].items) : crate.index[m].items[k] = x})

RECURSIVE Paths(_, _)
RECURSIVE ImportPaths(_, _)
\* the number of rendered paths to the item x: the ways in which the traversal
\* that starts at the root comes to render x, through the listing of x in a
\* rendered module (x being visible there), through a rendered import that
\* names x, or through a rendered glob import of a module that lists x as a
\* public child; `seen` holds the items between x and the path's end
Paths(x, seen) ==
    IF x \in seen THEN 0
    ELSE LET ids == SetToSeq(DOMAIN crate.index)
             item == crate.index[x]
             up == seen \cup {x}
         IN  (IF x = crate.root /\ (item.vis = Public \/ cfg.private) THEN 1 ELSE 0)
             + SumSeq([k \in 1..Len(ids) |->
                    LET c == crate.index[ids[k]] IN
                    CASE c.kind = "Module" ->
                            IF /\ ~(item.kind = "Import" /\ item.vis = Public)
                               /\ (item.vis = Public \/ cfg.private)
                            THEN Listings(ids[k], x) * Paths(ids[k], up)
                            ELSE 0
                      [] c.kind = "Import" /\ ~c.glob ->
                            IF c.id = x THEN ImportPaths(ids[k], up) ELSE 0
                      [] c.kind = "Import" /\ c.glob ->
                            IF /\ c.id \in DOMAIN crate.index
                               /\ crate.index[c.id].kind = "Module"
                               /\ item.vis = Public
                            THEN Listings(c.id, x) * ImportPaths(ids[k], up)
                            ELSE 0
                      [] OTHER -> 0])

\* the number of rendered paths to the import j: those on which render_item
\* comes to it, and its listings as a public import in a rendered module
ImportPaths(j, seen) ==
    IF j \in seen THEN 0
    ELSE LET ids == SetToSeq(DOMAIN crate.index) IN
         Paths(j, seen)
         + SumSeq([k \in 1..Len(ids) |->
                IF crate.index[ids[k]].kind = "Module" /\ crate.index[j].vis = Public
                THEN Listings(ids[k], j) * Paths(ids[k], seen \cup {j})
                ELSE 0])

\* the returned render_item calls that rendered the item x
Renderings(x) ==
    {s \in Returned :
        /\ s.fn = "render_item"
        /\ s.id = x
        /\ ~(crate.index[x].vis # Public /\ ~s.force /\ ~cfg.private)}

\* C16: in a finished rendering, an item with k rendered paths to it has been
\* rendered by exactly k render_item calls, all with the same text; for a
\* struct or a function the output holds its declaration exactly k times.
C16_NoMemoization ==
    status = "done" =>
        \A x \in DOMAIN crate.index :
            /\ Cardinality(Renderings(x)) = Paths(x, {})
            /\ \A s, t \in Renderings(x) : Text(s) = Text(t)
            /\ crate.index[x].kind \in {"Struct", "Function"} =>
                    Cardinality(Occurrences(output, DeclOf(x))) = Paths(x, {})

\* C16 witness: a finished rendering that holds the declaration of the struct
\* S three times: at its own place in a::b, for the import in the root that
\* names it and for the import in a::b that names it
C16_Witness ==
    /\ status = "done"
    /\ Paths(4, {}) = 3
    /\ crate.index[6].id = 4 /\ ~crate.index[6].glob
    /\ crate.index[7].id = 4 /\ ~crate.index[7].glob
    /\ Cardinality(Occurrences(output, <<"pub ", "struct ", "S", ";\n\n">>)) = 3

\* the item without the references that the index does not hold: the ids it
\* lists as fields, members, variants or impls, the None slots kept
Pruned(item) ==
    [item EXCEPT
        !.items = SelectSeq(@, LAMBDA id : id = NoId \/ id \in DOMAIN crate.index),
        !.impls = SelectSeq(@, LAMBDA id : id \in DOMAIN crate.index)]

\* C17: a crate some of whose references the index does not hold is rendered
\* to the end, and every item is rendered as it would be if the references
\* that do not resolve were not listed: a module calls its renderers on the
\* children that resolve, in order, and makes no other call; the text of a
\* struct is the text of the struct without its unresolved fields and impl
\* ids; the block of an impl is the block of the impl without its unresolved
\* members.
C17_UnresolvedIgnored ==
    /\ status # "overflow"
    /\ \A s \in Returned :
        /\ s.fn = "render_module" =>
                LET listed == SelectSeq(crate.index[s.id].items,
                                        LAMBDA c : c \in DOMAIN crate.index)
                IN  /\ Len(Kids(s.cid)) = Len(listed)
                    /\ \A k \in 1..Len(listed) : Kids(s.cid)[k].id = listed[k]
        /\ StructCall(s) => Text(s) = RenderStruct(Pruned(crate.index[s.id]))
    /\ \A i \in DOMAIN crate.index :
        crate.index[i].kind = "Impl" =>
            RenderImpl(crate.index[i]) = RenderImpl(Pruned(crate.index[i]))

\* the kinds that have a rendering rule at module level, inside an impl and
\* inside a trait
ModuleKinds ==
    {"Module", "Struct", "Enum", "Trait", "Import", "Function", "Constant",
     "TypeAlias", "Macro", "ProcMacro"}

ImplKinds == {"Function", "Constant", "AssocType", "TypeAlias"}

TraitKinds == {"Function", "AssocConst", "AssocType"}

\* the members that the item lists and the index holds, in listed order
Members(item) == SelectSeq(item.items, LAMBDA m : m \in DOMAIN crate.index)

\* the declaration of a member of a trait that is a function or an associated
\* type without default, and nothing for a member of any other kind
TraitMemberDecl(f) ==
    CASE f.kind = "Function" ->
            (IF f.vis = Public THEN <<"pub ">> ELSE <<>>)
            \o <<"fn ", f.name, "(", ")", IF f.hasBody THEN " {}\n\n" ELSE ";\n\n">>
      [] f.kind = "AssocType" -> <<"type ", f.name, ";\n">>
      [] OTHER -> <<>>

\* the declaration of a member of an impl that is a function, and nothing for
\* a member of any other kind
ImplMemberDecl(f) == IF f.kind = "Function" THEN MemberDecl(f) ELSE <<>>

\* C18: a render_item call on an item of a kind without a rule at module
\* level returns empty text and calls nothing, and the text of a module is its
\* header, the texts of its children of the other kinds in order, and its
\* closing brace.  The block of an impl whose members are functions and items
\* of kinds without a rule inside an impl is the functions' declarations in
\* order.  The body of a trait whose members are functions, associated types
\* without default and items of kinds without a rule inside a trait is the
\* declarations of the functions and associated types in order.
C18_UnrecognizedKinds ==
    \A s \in Returned :
        /\ (/\ s.fn = "render_item"
            /\ crate.index[s.id].kind \notin ModuleKinds) =>
                /\ Text(s) = <<>>
                /\ Kids(s.cid) = <<>>
        /\ s.fn = "render_module" =>
                LET kids == Kids(s.cid) IN
                Text(s) = <<"pub ", "mod ", crate.index[s.id].name, " {\n">>
                          \o Concat([k \in 1..Len(kids) |->
                                IF crate.index[kids[k].id].kind \in ModuleKinds
                                THEN Text(kids[k]) ELSE <<>>])
                          \o <<"}\n\n">>
        /\ KindCall(s, "Struct") =>
                \A i \in EmittedImpls(s) :
                    LET ms == Members(crate.index[i]) IN
                    (\A k \in 1..Len(ms) :
                        \/ crate.index[ms[k]].kind = "Function"
                        \/ crate.index[ms[k]].kind \notin ImplKinds) =>
                            ImplBlock(Text(s), crate.index[i]) =
                                Concat([k \in 1..Len(ms) |->
                                            ImplMemberDecl(crate.index[ms[k]])])
        /\ KindCall(s, "Trait") =>
                LET ms == Members(crate.index[s.id]) IN
                (\A k \in 1..Len(ms) :
                    \/ crate.index[ms[k]].kind = "Function"
                    \/ crate.index[ms[k]].kind = "AssocType" /\ crate.index[ms[k]].ty = NoName
                    \/ crate.index[ms[k]].kind \notin TraitKinds) =>
                        Text(s) = <<"pub ", "trait ", crate.index[s.id].name, " {\n">>
                                  \o Concat([k \in 1..Len(ms) |->
                                                TraitMemberDecl(crate.index[ms[k]])])
                                  \o <<"}\n\n">>

\* C18 witness: a finished rendering of a crate whose root, impl and trait
\* each list an associated constant (AssocConst has no rule at module level
\* and none inside an impl): the root's import follows the module m directly,
\* and the impl block holds its two functions only
C18_Witness ==
    /\ status = "done"
    /\ Resolves(crate.root) /\ Resolves(90)
    /\ crate.index[90].kind = "AssocConst"
    /\ crate.index[92].kind = "AssocConst"
    /\ Contains(output, <<"pub ", "mod ", "n", " {\n", "}\n\n", "}\n\n",
                          "pub use ", "dep", "::", "Thing", ";\n",
                          "pub ", "const ", "K">>)
    /\ Contains(output, <<"impl", " ", "W", " {\n",
                          "pub ", "fn ", "im", "(", ")", " {}\n\n",
                          "pub ", "fn ", "after", "(", ")", " {}\n\n", "}\n\n">>)

\* s is a returned render_import call on a public import whose target id is
\* absent or not in the index
FallbackCall(s) ==
    /\ s.fn = "render_import"
    /\ crate.index[s.id].kind = "Import"
    /\ crate.index[s.id].vis = Public
    /\ (crate.index[s.id].id = NoId \/ crate.index[s.id].id \notin DOMAIN crate.index)

\* the source path as it is written, its segments separated by `::`
SourceText(path) ==
    [k \in 1..(2 * Len(path) - 1) |-> IF k % 2 = 1 THEN path[(k + 1) \div 2] ELSE "::"]

\* C19: a render_import call on a public import whose target is absent or
\* unresolved calls nothing and returns one statement: `pub use <source>::*;`
\* for a glob, `pub use <source> as <name>;` when the import's name differs
\* from the last segment of its source, `pub use <source>;` when it equals
\* it.  In the finished rendering the module that lists the import has
\* rendered every resolved child it lists, those after the import too.
C19_ImportFallback ==
    \A s \in Returned :
        FallbackCall(s) =>
            LET j == crate.index[s.id] IN
            /\ Kids(s.cid) = <<>>
            /\ Cardinality({q \in 1..Len(Text(s)) : Text(s)[q] = "pub use "}) = 1
            /\ Text(s) =
                <<"pub use ">> \o SourceText(j.source)
                \o (IF j.glob THEN <<"::*;\n">>
                    ELSE IF j.name # j.source[Len(j.source)]
                    THEN <<" as ", j.name, ";\n">>
                    ELSE <<";\n">>)
            /\ (status = "done" /\ s.parent # 0 /\ Caller(s).fn = "render_module") =>
                    LET listed == SelectSeq(crate.index[Caller(s).id].items,
                                            LAMBDA c : c \in DOMAIN crate.index)
                        kids == Kids(s.parent)
                    IN  /\ Len(kids) = Len(listed)
                        /\ \A k \in 1..Len(listed) : kids[k].id = listed[k]

\* C19 witness: a finished rendering of a crate whose import of dep::Thing
\* under the name Alias has an unresolved target: the aliased statement, and
\* after it the constant that follows the import
C19_Witness ==
    /\ status = "done"
    /\ \E s \in Returned : FallbackCall(s) /\ crate.index[s.id].id = Missing
    /\ Contains(output, <<"pub use ", "dep", "::", "Thing", " as ", "Alias", ";\n",
                          "pub ", "const ", "K", ": ", "u8", " = ", "7", ";\n\n">>)

(***************************************************************************)
(* Ruskel::new and Ruskel::pretty_raw_json (lib.rs)                        *)
(***************************************************************************)
\* an absolute path is the sequence of its components below "/", which is
\* <<>>; a relative path is "." and then its components, and <<".">> is the
\* empty path
\* Path::parent, for a path other than "/" and the empty path
Parent(path) == SubSeq(path, 1, Len(path) - 1)

\* the paths that PathBuf::pop leaves as they are, returning false
Unpoppable == {<<>>, <<".">>}

\* the place on the disk that the operating system looks a path up at: a
\* relative path starts at the current directory
Resolved(path) ==
    IF path # <<>> /\ path[1] = "." THEN disk.cwd \o Tail(path) ELSE path

\* Path::exists and Path::is_file
Exists(path) == Resolved(path) \in disk.dirs \cup disk.files

IsFile(path) == Resolved(path) \in disk.files

\* dir.join("Cargo.toml")
ManifestIn(dir) == dir \o <<"Cargo.toml">>

\* whether `suffix` is the end of `path`
IsSuffix(suffix, path) ==
    /\ Len(suffix) <= Len(path)
    /\ SubSeq(path, Len(path) - Len(suffix) + 1, Len(path)) = suffix

\* the names of the Rust source files of the modelled disks
RustFileNames == {"lib.rs", "a.rs", "orphan.rs"}

\* Filter::None
FilterNone == [kind |-> "None", path |-> <<>>]

\* Filter::new(target, workspace_root): Filter::File with the path relative to
\* the workspace root for a Rust source file, Filter::None for a directory or
\* any other file
FilterNew(target, workspace_root) ==
    IF IsFile(target) /\ target[Len(target)] \in RustFileNames
    THEN [kind |-> "File", path |-> SubSeq(target, Len(workspace_root) + 1, Len(target))]
    ELSE FilterNone

\* the first line of Ruskel::new and the entry of find_manifest: the walk
\* starts at the target, or at its parent when the target is a file
NewRuskel(target) ==
    [pc |-> "find_manifest", target |-> target,
     path |-> IF IsFile(target) THEN Parent(target) ELSE target,
     manifest_path |-> <<>>, workspace_root |-> <<>>, filter |-> FilterNone,
     result |-> "none"]

\* find_manifest: one iteration of its loop
FindManifest ==
    /\ ruskel.pc = "find_manifest"
    /\ ruskel' =
        IF Exists(ManifestIn(ruskel.path))
        THEN [ruskel EXCEPT !.manifest_path = ManifestIn(ruskel.path),
                            !.path = Parent(ManifestIn(ruskel.path)),
                            !.pc = "find_workspace_root"]
        ELSE IF ruskel.path \in Unpoppable
        THEN [ruskel EXCEPT !.pc = "failed", !.result = "ManifestNotFound"]
        ELSE [ruskel EXCEPT !.path = Parent(ruskel.path)]
    /\ UNCHANGED <<crate, cfg, status, stack, output, spans, ncalls, disk, runs>>

\* find_workspace_root: one iteration of its loop, which starts at the
\* manifest's directory
FindWorkspaceRoot ==
    /\ ruskel.pc = "find_workspace_root"
    /\ ruskel' =
        IF Exists(ManifestIn(ruskel.path)) /\ Resolved(ruskel.path) \in disk.workspaces
        THEN [ruskel EXCEPT !.workspace_root = ruskel.path, !.pc = "filter_new"]
        ELSE IF ruskel.path \in Unpoppable
        THEN [ruskel EXCEPT !.workspace_root = Parent(ruskel.manifest_path),
                            !.pc = "filter_new"]
        ELSE [ruskel EXCEPT !.path = Parent(ruskel.path)]
    /\ UNCHANGED <<crate, cfg, status, stack, output, spans, ncalls, disk, runs>>

\* the end of Ruskel::new: the filter, and the Ruskel value
BuildRuskel ==
    /\ ruskel.pc = "filter_new"
    /\ ruskel' = [ruskel EXCEPT !.filter = FilterNew(ruskel.target, ruskel.workspace_root),
                                !.pc = "built"]
    /\ UNCHANGED <<crate, cfg, status, stack, output, spans, ncalls, disk, runs>>

RECURSIVE Subtree(_, _)
\* the item m of the crate c and the items below it
Subtree(c, m) ==
    IF m \notin DOMAIN c.index THEN {}
    ELSE {m} \cup UNION {Subtree(c, c.index[m].items[k]) : k \in 1..Len(c.index[m].items)}

\* the crate narrowed to the module m: its ancestor chain and its sub-tree
Narrow(c, m) ==
    LET keep == Ancestors(m) \cup Subtree(c, m) IN
    [c EXCEPT !.index =
        [i \in keep |->
            IF i \in Ancestors(m)
            THEN [c.index[i] EXCEPT !.items = SelectSeq(@, LAMBDA x : x \in keep)]
            ELSE c.index[i]]]

\* the modules of the crate whose source file the filter names
Owners(filter, c) ==
    {m \in DOMAIN c.files : IsSuffix(c.files[m], filter.path)}

\* the crates that filter_crate can return: the crate itself for
\* Filter::None, the crate narrowed to the module that owns the file for
\* Filter::File.  The call in pretty_raw_json takes the value as the Crate to
\* serialize, with no error to propagate; for a file that no module owns the
\* value is then the crate unchanged or the crate narrowed to nothing.
FilterCrate(filter, c) ==
    IF filter.kind = "None" THEN {c}
    ELSE IF Owners(filter, c) # {}
    THEN {Narrow(c, CHOOSE m \in Owners(filter, c) : TRUE)}
    ELSE {c, [c EXCEPT !.index = [i \in {} |-> Blank]]}

\* serde_json::to_string_pretty(&crate_data): the root and the ids of the index
ToJson(c) ==
    <<"{", "\"root\": ", ToString(c.root), "\"index\": ">>
    \o [k \in 1..Cardinality(DOMAIN c.index) |-> ToString(SetToSeq(DOMAIN c.index)[k])]
    \o <<"}">>

\* pretty_raw_json, for a run in which generate_json succeeds and gives `crate`
PrettyRawJson ==
    /\ ruskel.pc = "built"
    /\ \E crate_data \in FilterCrate(ruskel.filter, crate) :
            output' = ToJson(crate_data)
    /\ ruskel' = [ruskel EXCEPT !.pc = "returned", !.result = "Ok"]
    /\ UNCHANGED <<crate, cfg, status, stack, spans, ncalls, disk, runs>>

NextRuskel == FindManifest \/ FindWorkspaceRoot \/ BuildRuskel \/ PrettyRawJson

\* the disks: /ws/member1/src holds lib.rs, a.rs and orphan.rs, /ws/member1
\* holds not_rust.txt; /ws/member1 has a Cargo.toml or none, and /ws has none,
\* a package's or a workspace's; the process runs in the directory cwd
Disk(wsManifest, memberManifest, cwd) ==
    [dirs |-> {<<>>, <<"ws">>, <<"ws", "member1">>, <<"ws", "member1", "src">>},
     files |-> {<<"ws", "member1", "src", "lib.rs">>, <<"ws", "member1", "src", "a.rs">>,
                <<"ws", "member1", "src", "orphan.rs">>,
                <<"ws", "member1", "not_rust.txt">>}
               \cup (IF wsManifest # "none" THEN {ManifestIn(<<"ws">>)} ELSE {})
               \cup (IF memberManifest THEN {ManifestIn(<<"ws", "member1">>)} ELSE {}),
     workspaces |-> IF wsManifest = "workspace" THEN {<<"ws">>} ELSE {},
     cwd |-> cwd]

Disks ==
    {Disk(w, m, cwd) : w \in {"none", "package", "workspace"}, m \in BOOLEAN,
                       cwd \in {<<"ws", "member1">>, <<"ws", "member1", "src">>}}

Targets ==
    {<<"ws">>, <<"ws", "member1">>, <<"ws", "member1", "src">>,
     <<"ws", "member1", "src", "lib.rs">>, <<"ws", "member1", "src", "a.rs">>,
     <<"ws", "member1", "src", "orphan.rs">>, <<"ws", "member1", "not_rust.txt">>,
     <<"path", "does", "not", "exist">>, <<"ws", "member1", "gone", "deeper">>,
     <<".">>, <<".", "lib.rs">>, <<".", "src", "lib.rs">>}

\* the crate that rustdoc builds of the package in /ws/member1
\*     src/lib.rs:  pub mod a;  pub fn f() {}
\*     src/a.rs:    pub struct S;
\* src/orphan.rs is on the disk, and no `mod` item names it
ScopeCrate ==
    [root |-> 1,
     index |->
        (1 :> Module("member1", Public, <<2, 5>>)
      @@ 2 :> Module("a", Public, <<4>>)
      @@ 4 :> Struct("S", Public, "unit", <<>>, <<>>)
      @@ 5 :> Function("f", Public)),
     files |-> (1 :> <<"src", "lib.rs">> @@ 2 :> <<"src", "a.rs">>)]

InitRuskel ==
    /\ crate = ScopeCrate
    /\ cfg = [auto |-> FALSE, private |-> FALSE, blanket |-> FALSE]
    /\ status = "ready"
    /\ stack = <<>>
    /\ output = <<>>
    /\ spans = <<>>
    /\ ncalls = 0
    /\ runs = <<>>
    /\ disk \in Disks
    /\ \E target \in Targets : ruskel = NewRuskel(target)

SpecRuskel == InitRuskel /\ [][NextRuskel]_vars

\* the target is a Rust source file of the disk that no module of the crate owns
TargetOutsideTree ==
    /\ IsFile(ruskel.target)
    /\ ruskel.target[Len(ruskel.target)] \in RustFileNames
    /\ \A m \in DOMAIN crate.files : ~IsSuffix(crate.files[m], ruskel.target)

\* C20: when Ruskel::new is given a source file that is not in the package's
\* module tree (and a manifest is found for it), the request ends with the
\* error ScopeNotFound and no output text: pretty_raw_json gives neither the
\* unfiltered nor a filtered model.
C20_ScopeNotFound ==
    (/\ TargetOutsideTree
     /\ ruskel.manifest_path # <<>>
     /\ ruskel.pc \in {"returned", "failed"}) =>
        /\ ruskel.result = "ScopeNotFound"
        /\ output = <<>>

Tok(t, p) == IF p >= 1 /\ p <= Len(t) THEN t[p] ELSE "<eof>"

\* the id rustdoc gives the item whose text starts at position p
SrcId(p) == 1000 + p

\* an index that holds nothing
NoItems == [i \in {} |-> Blank]

\* what reading a piece of source gives: the position after it, the ids it
\* adds to the list being read, the items it adds to the index, and whether
\* the piece is source that compiles
Parsed(n, ids, idx) == [n |-> n, ids |-> ids, idx |-> idx, ok |-> TRUE]

Rejected == [n |-> 0, ids |-> <<>>, idx |-> NoItems, ok |-> FALSE]

\* tokens that are punctuation of the skeleton, never a name or a type
Punct ==
    {"<eof>", "pub ", ", ", "(", ")", "_", ": ", ",\n", "\n", ";\n", ";\n\n", " {\n",
     "}\n\n", "    }", "    ", "        ", " = ", "= ", " {}\n\n", "::", " for ", " as ",
     "::*;\n", "r#", "?", " ", ""}

\* an identifier, raw (r#name) or not
ParseName(t, p) ==
    IF Tok(t, p) = "r#"
    THEN [name |-> Tok(t, p + 1), n |-> p + 2, ok |-> Tok(t, p + 1) \notin Punct]
    ELSE [name |-> Tok(t, p), n |-> p + 1,
          ok |-> Tok(t, p) \notin Punct /\ Tok(t, p) \notin ReservedWords]

RECURSIVE ParsePath(_, _)
\* a path: segments with `::` between them
ParsePath(t, p) ==
    IF Tok(t, p + 1) = "::" /\ Tok(t, p + 2) \notin Punct
    THEN LET r == ParsePath(t, p + 2) IN [path |-> <<Tok(t, p)>> \o r.path, n |-> r.n]
    ELSE [path |-> <<Tok(t, p)>>, n |-> p + 1]

\* the position after an optional `pub `
AfterVis(t, p) == IF Tok(t, p) = "pub " THEN p + 1 ELSE p

\* the visibility rustdoc records for an item written with or without `pub`
VisAt(t, p) == IF Tok(t, p) = "pub " THEN Public ELSE Default

\* one item read as the piece of source that starts at p and ends before n
One(p, n, item) == Parsed(n, <<SrcId(p)>>, SrcId(p) :> item)

\* a positional field `<ty>` or `pub <ty>` of a tuple struct, after the comma
\* that separates it from the field before it; a tuple variant's field takes
\* no `pub`
ParseTupleField(t, p, first, mayBePub) ==
    LET q == IF first THEN p ELSE p + 1
        r == AfterVis(t, q)
    IN  IF (~first /\ Tok(t, p) # ", ") \/ Tok(t, r) \in Punct \/ (r # q /\ ~mayBePub)
        THEN Rejected
        ELSE One(p, r + 1, StructField("0", VisAt(t, q), Tok(t, r)))

\* a named field `<name>: <ty>,` or `pub <name>: <ty>,`, which a struct variant
\* writes between its indentation and a newline and without `pub`
ParseNamedField(t, p, inVariant) ==
    LET q == IF inVariant THEN p + 1 ELSE p
        r == AfterVis(t, q)
        nm == ParseName(t, r)
    IN  \* an indented line that holds nothing is white space
        IF inVariant /\ Tok(t, p) = "        " /\ Tok(t, p + 1) = "\n"
        THEN Parsed(p + 2, <<>>, NoItems)
        ELSE IF (inVariant /\ (Tok(t, p) # "        " \/ r # q))
           \/ ~nm.ok \/ Tok(t, nm.n) # ": " \/ Tok(t, nm.n + 1) \in Punct
           \/ Tok(t, nm.n + 2) # ",\n" \/ (inVariant /\ Tok(t, nm.n + 3) # "\n")
        THEN Rejected
        ELSE One(p, nm.n + (IF inVariant THEN 4 ELSE 3),
                 StructField(nm.name, VisAt(t, q), Tok(t, nm.n + 1)))

\* a function `fn <name>() {}` or, in a trait only, `fn <name>();`
ParseFunction(t, p, inTrait) ==
    LET q == AfterVis(t, p)
        nm == ParseName(t, q + 1)
        end == Tok(t, nm.n + 2)
    IN  IF Tok(t, q) # "fn " \/ ~nm.ok \/ Tok(t, nm.n) # "(" \/ Tok(t, nm.n + 1) # ")"
           \/ end \notin {" {}\n\n", ";\n\n"} \/ (end = ";\n\n" /\ ~inTrait)
           \/ (inTrait /\ q # p)
        THEN Rejected
        ELSE One(p, nm.n + 3,
                 [Function(nm.name, VisAt(t, p)) EXCEPT !.hasBody = (end = " {}\n\n")])

\* `const <name>: <ty> = <expr>;`, a Constant in a module and an associated
\* constant in a trait (where it may have no value) or an impl
ParseConst(t, p, ctx) ==
    LET q == AfterVis(t, p)
        nm == ParseName(t, q + 1)
        ty == Tok(t, nm.n + 1)
        valued == Tok(t, nm.n + 2) = " = "
        expr == IF valued THEN Tok(t, nm.n + 3) ELSE NoName
        e == IF valued THEN nm.n + 4 ELSE nm.n + 2
    IN  IF Tok(t, q) # "const " \/ ~nm.ok \/ Tok(t, nm.n) # ": " \/ ty \in Punct
           \/ expr \in Punct \/ Tok(t, e) \notin {";\n", ";\n\n"}
           \/ (~valued /\ ctx # "trait") \/ (ctx = "trait" /\ q # p)
        THEN Rejected
        ELSE One(p, e + 1,
                 IF ctx = "module"
                 THEN Constant(nm.name, VisAt(t, p), ty, expr)
                 ELSE [AssocConst(nm.name, ty, expr) EXCEPT !.vis = VisAt(t, p)])

\* `type <name> = <ty>;`, a TypeAlias in a module and an associated type in a
\* trait (where it may have no default) or an impl
ParseType(t, p, ctx) ==
    LET q == AfterVis(t, p)
        nm == ParseName(t, q + 1)
        valued == Tok(t, nm.n) \in {" = ", "= "}
        ty == IF valued THEN Tok(t, nm.n + 1) ELSE NoName
        e == IF valued THEN nm.n + 2 ELSE nm.n
    IN  IF Tok(t, q) # "type " \/ ~nm.ok \/ ty \in Punct
           \/ Tok(t, e) \notin {";\n", ";\n\n"}
           \/ (~valued /\ ctx # "trait") \/ (ctx = "trait" /\ q # p)
        THEN Rejected
        ELSE One(p, e + 1,
                 IF ctx = "module"
                 THEN TypeAlias(nm.name, VisAt(t, p), ty)
                 ELSE [AssocType(nm.name, ty) EXCEPT !.vis = VisAt(t, p)])

\* the crates a package depends on
ExternCrates == {"dep", "std"}

\* `pub use <path>;`, `pub use <path> as <name>;` or `pub use <path>::*;` for
\* a path into another crate: rustdoc records the id of an item that the index
\* of this crate does not hold
ParseUse(t, p) ==
    LET path == ParsePath(t, p + 1)
        end == Tok(t, path.n)
        nm == ParseName(t, path.n + 1)
    IN  IF Tok(t, p) # "pub use " \/ path.path[1] \notin ExternCrates
           \/ end \notin {";\n", "::*;\n", " as "}
           \/ (end = " as " /\ (~nm.ok \/ Tok(t, nm.n) # ";\n"))
        THEN Rejected
        ELSE One(p, IF end = " as " THEN nm.n + 1 ELSE path.n + 1,
                 Import(IF end = " as " THEN nm.name ELSE LastSegment(path.path),
                        Public, path.path, Missing, end = "::*;\n"))

\* the macro definitions of the modelled sources, and the names they define
MacroNames ==
    ("macro_rules! mac { ... }" :> "mac" @@ "macro_rules! pm { ... }" :> "pm")

\* `macro_rules! <name> {...}`, exported when `#[macro_export]` stands before
\* it
ParseMacro(t, p) ==
    LET exported == Tok(t, p) = "#[macro_export]\n"
        q == IF exported THEN p + 1 ELSE p
    IN  IF Tok(t, q) \notin DOMAIN MacroNames \/ Tok(t, q + 1) # "\n"
        THEN Rejected
        ELSE One(p, q + 2,
                 Macro(MacroNames[Tok(t, q)], IF exported THEN Public ELSE Default,
                       Tok(t, q)))

RECURSIVE ParseList(_, _, _)
RECURSIVE ParseElem(_, _, _)

\* the token that ends a list of the given kind
Closing(ctx) ==
    CASE ctx \in {"tuple1", "tuple", "vtuple1", "vtuple"} -> ")"
      [] ctx = "vfields" -> "    }"
      [] ctx = "top" -> "<eof>"
      [] OTHER -> "}\n\n"

\* the kind of list that continues after the first element
Rest(ctx) ==
    CASE ctx = "tuple1" -> "tuple"
      [] ctx = "vtuple1" -> "vtuple"
      [] OTHER -> ctx

\* the element e before the list r that follows it
Before(e, r) ==
    IF ~r.ok THEN Rejected ELSE Parsed(r.n, e.ids \o r.ids, e.idx @@ r.idx)

\* the list that starts with the element e, which has been read
StartingWith(t, e, ctx) ==
    IF ~e.ok THEN Rejected ELSE Before(e, ParseList(t, e.n, ctx))

\* the elements of a list up to its closing token
ParseList(t, p, ctx) ==
    IF Tok(t, p) = Closing(ctx) THEN Parsed(p + 1, <<>>, NoItems)
    ELSE IF p > Len(t) THEN Rejected
    ELSE StartingWith(t, ParseElem(t, p, ctx), Rest(ctx))

\* a container read as the piece of source that starts at p: its item, with
\* the ids of the list `body` it holds, and the items below it
Holding(p, body, item) ==
    IF ~body.ok THEN Rejected
    ELSE Parsed(body.n, <<SrcId(p)>>,
                (SrcId(p) :> [item EXCEPT !.items = body.ids]) @@ body.idx)

\* `struct <name>;`, `struct <name>(<fields>);` or `struct <name> { <fields> }`
ParseStruct(t, p) ==
    LET nm == ParseName(t, AfterVis(t, p) + 1)
        open == Tok(t, nm.n)
        body == CASE open = "(" -> ParseList(t, nm.n + 1, "tuple1")
                  [] open = " {\n" -> ParseList(t, nm.n + 1, "fields")
                  [] OTHER -> Parsed(nm.n, <<>>, NoItems)
        skind == CASE open = "(" -> "tuple" [] open = " {\n" -> "plain" [] OTHER -> "unit"
        closed == IF open = " {\n" THEN body
                  ELSE IF body.ok /\ Tok(t, body.n) = ";\n\n"
                  THEN [body EXCEPT !.n = body.n + 1]
                  ELSE Rejected
    IN  IF Tok(t, AfterVis(t, p)) # "struct " \/ ~nm.ok THEN Rejected
        ELSE Holding(p, closed, Struct(nm.name, VisAt(t, p), skind, <<>>, <<>>))

\* a variant `<name>`, `<name>(<types>)` or `<name> { <fields> }`, with or
\* without `= <discriminant>`, and the comma after it
ParseVariant(t, p) ==
    LET nm == ParseName(t, p + 1)
        open == Tok(t, nm.n)
        body == CASE open = "(" -> ParseList(t, nm.n + 1, "vtuple1")
                  [] open = " {\n" -> ParseList(t, nm.n + 1, "vfields")
                  [] OTHER -> Parsed(nm.n, <<>>, NoItems)
        vkind == CASE open = "(" -> "tuple" [] open = " {\n" -> "struct" [] OTHER -> "plain"
        valued == body.ok /\ Tok(t, body.n) = " = "
        disc == IF valued THEN Tok(t, body.n + 1) ELSE NoName
        e == IF valued THEN body.n + 2 ELSE body.n
    IN  IF Tok(t, p) # "    " \/ ~nm.ok \/ ~body.ok \/ disc \in Punct \/ Tok(t, e) # ",\n"
        THEN Rejected
        ELSE Holding(p, [body EXCEPT !.n = e + 1], Variant(nm.name, vkind, <<>>, disc))

\* `enum <name> { <variants> }`
ParseEnum(t, p) ==
    LET nm == ParseName(t, AfterVis(t, p) + 1) IN
    IF Tok(t, AfterVis(t, p)) # "enum " \/ ~nm.ok \/ Tok(t, nm.n) # " {\n" THEN Rejected
    ELSE Holding(p, ParseList(t, nm.n + 1, "variants"), Enum(nm.name, VisAt(t, p), <<>>))

\* `trait <name> { <items> }`, with or without `unsafe`
ParseTrait(t, p) ==
    LET q == AfterVis(t, p)
        u == IF Tok(t, q) = "unsafe " THEN q + 1 ELSE q
        nm == ParseName(t, u + 1)
    IN  IF Tok(t, u) # "trait " \/ ~nm.ok \/ Tok(t, nm.n) # " {\n" THEN Rejected
        ELSE Holding(p, ParseList(t, nm.n + 1, "trait"),
                     [Trait(nm.name, VisAt(t, p), <<>>) EXCEPT !.unsafe = (u # q)])

\* `impl <type> { <items> }` or `impl <trait> for <type> { <items> }`, with or
\* without `unsafe`; rustdoc lists an impl with its type, never among the
\* items of the module
ParseImpl(t, p) ==
    LET u == IF Tok(t, p) = "unsafe " THEN p + 1 ELSE p
        path == ParsePath(t, u + 2)
        isTrait == Tok(t, path.n) = " for "
        ty == IF isTrait THEN Tok(t, path.n + 1) ELSE path.path[1]
        open == IF isTrait THEN path.n + 2 ELSE path.n
        held == Holding(p, ParseList(t, open + 1, "impl"),
                        [Impl(IF isTrait THEN path.path ELSE NoPath, ty, FALSE, FALSE, <<>>)
                            EXCEPT !.unsafe = (u # p)])
    IN  IF Tok(t, u) # "impl" \/ Tok(t, u + 1) # " " \/ ty \in Punct
           \/ (~isTrait /\ Len(path.path) # 1) \/ Tok(t, open) # " {\n"
        THEN Rejected
        ELSE [held EXCEPT !.ids = <<>>]

\* the ids of the impls rustdoc synthesises for the struct s: an auto trait
\* impl and a blanket impl
AutoImplId(s) == 5000 + s

BlanketImplId(s) == 6000 + s

\* the impls rustdoc adds to every struct
SynthesizedImpls(s, name) ==
    (AutoImplId(s) :> Impl(<<"Send">>, name, TRUE, FALSE, <<>>)
  @@ BlanketImplId(s) :> Impl(<<"From">>, name, FALSE, TRUE, <<>>))

\* the list read as the body of the module m, with every impl block of the
\* body listed with the struct of the body that it names, in the order of the
\* text, before the impls that rustdoc synthesises
Attach(m, body) ==
    LET mine == {i \in DOMAIN body.idx :
                    body.idx[i].kind = "Impl" /\ body.idx[i].span = NoId}
        structs == {body.ids[k] : k \in {j \in 1..Len(body.ids) :
                                            body.idx[body.ids[j]].kind = "Struct"}}
        synthesized == [i \in UNION {{AutoImplId(s), BlanketImplId(s)} : s \in structs} |->
                            IF i - 5000 \in structs
                            THEN SynthesizedImpls(i - 5000, body.idx[i - 5000].name)[i]
                            ELSE SynthesizedImpls(i - 6000, body.idx[i - 6000].name)[i]]
    IN  [body EXCEPT !.idx =
            [i \in DOMAIN body.idx |->
                IF i \in mine THEN [body.idx[i] EXCEPT !.span = m]
                ELSE IF i \in structs
                THEN [body.idx[i] EXCEPT !.impls =
                        SetToSeq({j \in mine : body.idx[j].ty = body.idx[i].name})
                        \o <<AutoImplId(i), BlanketImplId(i)>>]
                ELSE body.idx[i]]
            @@ synthesized]

\* `mod <name> { <items> }`
ParseModule(t, p) ==
    LET nm == ParseName(t, AfterVis(t, p) + 1) IN
    IF Tok(t, AfterVis(t, p)) # "mod " \/ ~nm.ok \/ Tok(t, nm.n) # " {\n" THEN Rejected
    ELSE Holding(p, Attach(SrcId(p), ParseList(t, nm.n + 1, "module")),
                 Module(nm.name, VisAt(t, p), <<>>))

\* one element of a list of the given kind
ParseElem(t, p, ctx) ==
    LET k == Tok(t, AfterVis(t, p)) IN
    CASE ctx \in {"tuple1", "tuple"} -> ParseTupleField(t, p, ctx = "tuple1", TRUE)
      [] ctx \in {"vtuple1", "vtuple"} -> ParseTupleField(t, p, ctx = "vtuple1", FALSE)
      [] ctx = "fields" -> ParseNamedField(t, p, FALSE)
      [] ctx = "vfields" -> ParseNamedField(t, p, TRUE)
      [] ctx = "variants" -> ParseVariant(t, p)
      [] ctx \in {"trait", "impl"} ->
            (CASE k = "fn " -> ParseFunction(t, p, ctx = "trait")
               [] k = "const " -> ParseConst(t, p, ctx)
               [] k = "type " -> ParseType(t, p, ctx)
               [] OTHER -> Rejected)
      [] OTHER ->
            (CASE k = "mod " -> ParseModule(t, p)
               [] k = "struct " -> ParseStruct(t, p)
               [] k = "enum " -> ParseEnum(t, p)
               [] k = "trait " -> ParseTrait(t, p)
               [] k = "unsafe " /\ Tok(t, AfterVis(t, p) + 1) = "trait " -> ParseTrait(t, p)
               [] k = "unsafe " /\ Tok(t, p + 1) = "impl" -> ParseImpl(t, p)
               [] k = "impl" -> ParseImpl(t, p)
               [] k = "fn " -> ParseFunction(t, p, FALSE)
               [] k = "const " -> ParseConst(t, p, "module")
               [] k = "type " -> ParseType(t, p, "module")
               [] k = "pub use " -> ParseUse(t, p)
               [] k = "#[macro_export]\n" -> ParseMacro(t, p)
               [] k \in DOMAIN MacroNames -> ParseMacro(t, p)
               [] OTHER -> Rejected)

\* the id of the root module of a crate that rustdoc builds
RootId == 1

\* the crate whose root module has the package's name and lists, after the
\* items `top` of the text, the exported macros that the modules below it
\* declare
CrateOf(top, name) ==
    LET exported == {i \in DOMAIN top.idx :
                        top.idx[i].kind = "Macro" /\ top.idx[i].vis = Public}
        below == {i \in exported : \A k \in 1..Len(top.ids) : top.ids[k] # i}
    IN  [ok |-> top.ok,
         crate |->
            [root |-> RootId,
             index |->
                (RootId :> Module(name, Public, top.ids \o SetToSeq(below)))
                @@ [i \in DOMAIN top.idx |->
                        IF top.idx[i].kind = "Module"
                        THEN [top.idx[i] EXCEPT
                                !.items = SelectSeq(@, LAMBDA x : x \notin below)]
                        ELSE top.idx[i]]]]

\* rustdoc on a package whose lib.rs holds `source`
Rustdoc(source, name) == CrateOf(Attach(RootId, ParseList(source, 1, "top")), name)

(***************************************************************************)
(* Packages of public items, rendered and read back                        *)
(***************************************************************************)
\* the test helper strip_module_declaration: the text without its first and
\* its last line, which are the `mod <crate> {` and the `}` of the root module
StripModuleDeclaration(text) ==
    IF FirstPos(text, " {\n") = 0 \/ Len(text) <= FirstPos(text, " {\n") THEN <<>>
    ELSE SubSeq(text, FirstPos(text, " {\n") + 1, Len(text) - 1)

\* the fields of the struct P
PublicFields(skind) ==
    IF skind = "unit" THEN <<>> ELSE <<101, 102>>

\* the public import of a package: of an item of another crate, by its name,
\* under another name or by a glob, or of an item or the items of the module m
PublicImports ==
    {Import("Thing", Public, <<"dep", "Thing">>, Missing, FALSE),
     Import("Alias", Public, <<"dep", "Thing">>, Missing, FALSE),
     Import("sub", Public, <<"dep", "sub">>, Missing, TRUE),
     Import("S", Public, <<"m", "S">>, 4, FALSE),
     Import("m", Public, <<"m">>, 2, TRUE)}

\* a package
\*     pub struct P <fields>            impl P { pub fn m() {} pub const Z: u8 = 0; }
\*                                      impl T for P { fn req() {} type Out = u8; }
\*     pub enum E { A <= disc>, B(i32, bool), C { x: u8 } }
\*     pub <unsafe> trait T { fn req(); fn dflt() {} type Out; const N: u8; }
\*     pub fn <name>() {}   pub const K: u8 = 7;   pub type Al = u8;
\*     pub mod m { pub struct S; impl S { pub fn s() {} }
\*                 pub mod n { #[macro_export] macro_rules! mac {...} } }
\*     pub use <import>;
\* as rustdoc gives it: the auto trait and blanket impls of each struct, the
\* exported macro among the items of the root
PublicCrate(skind, disc, unsafe, fname, import) ==
    [root |-> RootId,
     index |->
        (RootId :> Module("root", Public, <<10, 50, 60, 70, 76, 77, 2, 80, 75>>)
      @@ 2 :> Module("m", Public, <<4, 3>>)
      @@ 3 :> Module("n", Public, <<>>)
      @@ 4 :> Struct("S", Public, "unit", <<>>, <<24, AutoImplId(4), BlanketImplId(4)>>)
      @@ 10 :> Struct("P", Public, skind, PublicFields(skind),
                      <<20, 21, AutoImplId(10), BlanketImplId(10)>>)
      @@ 101 :> StructField("a", Public, "i32")
      @@ 102 :> StructField("b", Public, "bool")
      @@ 20 :> Impl(NoPath, "P", FALSE, FALSE, <<30, 33>>)
      @@ 21 :> Impl(<<"T">>, "P", FALSE, FALSE, <<31, 35>>)
      @@ 24 :> Impl(NoPath, "S", FALSE, FALSE, <<36>>)
      @@ 30 :> Function("m", Public)
      @@ 31 :> Function("req", Default)
      @@ 33 :> [AssocConst("Z", "u8", "0") EXCEPT !.vis = Public]
      @@ 35 :> AssocType("Out", "u8")
      @@ 36 :> Function("s", Public)
      @@ 50 :> Enum("E", Public, <<51, 52, 53>>)
      @@ 51 :> Variant("A", "plain", <<>>, disc)
      @@ 52 :> Variant("B", "tuple", <<54, 55>>, NoName)
      @@ 53 :> Variant("C", "struct", <<56>>, NoName)
      @@ 54 :> StructField("0", Default, "i32")
      @@ 55 :> StructField("1", Default, "bool")
      @@ 56 :> StructField("x", Default, "u8")
      @@ 60 :> [Trait("T", Public, <<61, 62, 63, 64>>) EXCEPT !.unsafe = unsafe]
      @@ 61 :> [Function("req", Default) EXCEPT !.hasBody = FALSE]
      @@ 62 :> Function("dflt", Default)
      @@ 63 :> AssocType("Out", NoName)
      @@ 64 :> AssocConst("N", "u8", NoName)
      @@ 70 :> Function(fname, Public)
      @@ 75 :> [Macro("mac", Public, "macro_rules! mac { ... }") EXCEPT !.span = 3]
      @@ 76 :> Constant("K", Public, "u8", "7")
      @@ 77 :> TypeAlias("Al", Public, "u8")
      @@ 80 :> import
      @@ SynthesizedImpls(4, "S")
      @@ SynthesizedImpls(10, "P"))]

PublicCrates ==
    {PublicCrate(skind, disc, unsafe, fname, import) :
        skind \in {"unit", "tuple", "plain"}, disc \in {NoName, "0x10"},
        unsafe \in BOOLEAN, fname \in {"g", "try"}, import \in PublicImports}

\* the renderer takes the crate that rustdoc built, when the source compiled
Rebuilt(whole, built) ==
    /\ runs' = Append(runs, [text |-> output, whole |-> whole, ok |-> built.ok])
    /\ crate' = IF built.ok THEN built.crate ELSE crate
    /\ status' = IF built.ok THEN "ready" ELSE "rejected"

\* the rendering has returned and its text is written to the lib.rs of a new
\* package of the same name, as it is or, as the tests do, without the
\* declaration of the root module; rustdoc builds the Crate of that package
Reparse ==
    /\ status = "done"
    /\ Len(runs) < MaxRuns
    /\ \E whole \in BOOLEAN :
        Rebuilt(whole, Rustdoc(IF whole THEN output ELSE StripModuleDeclaration(output),
                               crate.index[crate.root].name))
    /\ stack' = <<>>
    /\ spans' = <<>>
    /\ ncalls' = 0
    /\ UNCHANGED <<cfg, output, disk, ruskel>>

NextRoundTrip ==
    Render \/ RenderDone \/ RenderItem \/ RenderModule \/ RenderImport \/ Reparse

\* the options of the tests' round trips: the defaults, and with_private_items
InitRoundTrip ==
    /\ Start(PublicCrates)
    /\ ~cfg.auto
    /\ ~cfg.blanket

SpecRoundTrip == InitRoundTrip /\ [][NextRoundTrip]_vars

\* the tokens that are white space and nothing else
Blanks == {" ", "    ", "        ", "\n"}

\* the test helper normalize_whitespace, on tokens: the text without its
\* white space (the other tokens carry the same white space in every
\* rendering)
NormalizeWhitespace(text) == SelectSeq(text, LAMBDA tok : tok \notin Blanks)

\* two texts are equal but for white space
Equivalent(a, b) == NormalizeWhitespace(a) = NormalizeWhitespace(b)

Count(text, tok) == Cardinality({k \in 1..Len(text) : text[k] = tok})

\* the tokens that open an attribute of a procedural macro
ProcMacroAttributes == {"#[proc_macro_derive(", "#[proc_macro_attribute]\n", "#[proc_macro]\n"}

\* the text from its token `pub fn ` on
Stub(text) == SubSeq(text, FirstPos(text, "pub fn "), Len(text))

\* s is a returned render_item call that rendered a procedural macro
ProcMacroCall(s) ==
    /\ s.fn = "render_item"
    /\ crate.index[s.id].kind = "ProcMacro"
    /\ ~Skipped(crate.index[s.id], s.force, cfg)

\* C23: the text of a rendered procedural macro is one attribute and then the
\* stub `pub fn <name>(<params>) -> proc_macro::TokenStream {}`: for an
\* attribute macro `#[proc_macro_attribute]` and the two parameters attr and
\* item, for a function-like macro `#[proc_macro]` and one parameter, for a
\* derive macro `#[proc_macro_derive(<name>)]` and one parameter, where the
\* attribute lists `attributes(<helpers>)` exactly when the macro has helpers;
\* every parameter is a proc_macro::TokenStream.
C23_ProcMacroStubs ==
    \A s \in Returned :
        ProcMacroCall(s) =>
            LET item == crate.index[s.id]
                text == Text(s)
                name == RenderName(item.name)
                params == Between(Stub(text), "(", ") -> ")
            IN  /\ Cardinality({k \in 1..Len(text) : text[k] \in ProcMacroAttributes}) = 1
                /\ text[1] \in ProcMacroAttributes
                /\ Stub(text) = <<"pub fn ">> \o name \o <<"(">> \o params
                                \o <<") -> ", "proc_macro::TokenStream", " {}\n">>
                /\ Count(params, ": ") = (IF item.mkind = "attr" THEN 2 ELSE 1)
                /\ Count(params, "proc_macro::TokenStream") = Count(params, ": ")
                /\ Count(params, ", ") = Count(params, ": ") - 1
                /\ CASE item.mkind = "attr" ->
                            SubSeq(text, 1, FirstPos(text, "pub fn ") - 1)
                                = <<"#[proc_macro_attribute]\n">>
                     [] item.mkind = "bang" ->
                            SubSeq(text, 1, FirstPos(text, "pub fn ") - 1)
                                = <<"#[proc_macro]\n">>
                     [] item.mkind = "derive" ->
                            /\ SubSeq(text, 1, 1 + Len(name))
                                    = <<"#[proc_macro_derive(">> \o name
                            /\ text[FirstPos(text, "pub fn ") - 1] = ")]\n"
                            /\ Contains(text, <<", attributes(">>) <=> item.helpers # <<>>
                            /\ item.helpers # <<>> =>
                                    Between(text, ", attributes(", ")")
                                        = Join([k \in 1..Len(item.helpers) |->
                                                    <<item.helpers[k]>>], ", ")

\* C23 witness: a finished rendering of a proc-macro crate with a derive
\* macro that has two helpers and a reserved word for its name, and an
\* attribute macro
C23_Witness ==
    /\ status = "done"
    /\ Contains(output, <<"#[proc_macro_derive(", "r#", "try", ", attributes(", "first",
                          ", ", "second", ")", ")]\n", "pub fn ", "r#", "try", "(", "input",
                          ": ", "proc_macro::TokenStream", ") -> ">>)
    /\ Contains(output, <<"#[proc_macro_attribute]\n", "pub fn ", "route", "(", "attr", ": ",
                          "proc_macro::TokenStream", ", ", "item", ": ",
                          "proc_macro::TokenStream", ") -> ", "proc_macro::TokenStream",
                          " {}\n">>)
    /\ \E s \in Returned : ProcMacroCall(s) /\ crate.index[s.id].helpers # <<>>

(***************************************************************************)
(* Manifest discovery                                                      *)
(***************************************************************************)
\* Ruskel::new runs to its end: its loops take their next step
SpecRuskelFair == SpecRuskel /\ WF_vars(NextRuskel)

RECURSIVE Chain(_)
\* a path and its ancestors (Path::ancestors), nearest first; the ancestors
\* of a relative path end with the empty path, which is the current directory
Chain(path) ==
    IF path \in Unpoppable THEN <<path>> ELSE <<path>> \o Chain(Parent(path))

\* the directory the walk for the target starts at
WalkStart(target) == IF IsFile(target) THEN Parent(target) ELSE target

\* the directories on the chain of the target that hold a Cargo.toml
WithManifest(target) ==
    SelectSeq(Chain(WalkStart(target)), LAMBDA dir : Exists(ManifestIn(dir)))

\* the walk of find_manifest is on the chain of its target, past directories
\* without a Cargo.toml only; it ends at the nearest directory of the chain
\* that holds a Cargo.toml, whose Cargo.toml becomes manifest_path, or, when
\* the chain has none, with the error ManifestNotFound and no Ruskel value
ManifestWalk ==
    LET chain == Chain(WalkStart(ruskel.target))
        found == WithManifest(ruskel.target)
    IN  /\ ruskel.pc = "find_manifest" =>
            \E k \in 1..Len(chain) :
                /\ chain[k] = ruskel.path
                /\ \A j \in 1..(k - 1) : ~Exists(ManifestIn(chain[j]))
        /\ ruskel.pc # "find_manifest" =>
            IF found = <<>>
            THEN ruskel.pc = "failed" /\ ruskel.result = "ManifestNotFound"
                 /\ ruskel.manifest_path = <<>>
            ELSE ruskel.pc # "failed" /\ ruskel.manifest_path = ManifestIn(found[1])
        /\ ruskel.pc \in {"built", "returned"} => found # <<>>

\* the walk of find_manifest follows the written path: see ManifestWalk
LexicalWalk == []ManifestWalk /\ <>(ruskel.pc # "find_manifest")

\* the directories of the file system above the walk's start that hold a
\* Cargo.toml, nearest first
AncestorsWithManifest(target) ==
    SelectSeq(Chain(Resolved(WalkStart(target))),
              LAMBDA dir : ManifestIn(dir) \in disk.files)

\* once find_manifest has ended: manifest_path is the Cargo.toml of the
\* nearest ancestor directory that holds one, and there is an error exactly
\* when no ancestor directory holds one
NearestManifest ==
    LET found == AncestorsWithManifest(ruskel.target)
    IN  ruskel.pc # "find_manifest" =>
            IF found = <<>>
            THEN ruskel.pc = "failed" /\ ruskel.result = "ManifestNotFound"
            ELSE /\ ruskel.pc # "failed"
                 /\ Resolved(ruskel.manifest_path) = ManifestIn(found[1])

\* C24: Ruskel::new(target) sets manifest_path to the Cargo.toml of the
\* nearest directory that holds one among the target (its parent when the
\* target is a file) and its ancestors; the walk ends; and when no directory
\* of that chain holds a Cargo.toml the call ends with the error
\* ManifestNotFound and builds no Ruskel value.
C24_ManifestDiscovery ==
    /\ []NearestManifest
    /\ <>(ruskel.pc # "find_manifest")

\* a run for a target given by an absolute path
AbsoluteTarget == ruskel.target # <<>> /\ ruskel.target[1] # "."

\* C24 for targets given by an absolute path
C24_AbsoluteTargets ==
    /\ [](AbsoluteTarget => NearestManifest)
    /\ <>(ruskel.pc # "find_manifest")

(***************************************************************************)
(* The self parameter                                                      *)
(***************************************************************************)
\* the crate is one of the signature crates
IsSignatureCrate == DOMAIN crate.index = {1, 60, 61}

\* the declaration of the method of a signature crate
MethodDecl == crate.index[61].decl

\* the text between the parentheses of the rendered method, for a method of
\* one parameter and no return type:
\*     pub mod root {\n pub trait WithSelfType {\n fn method ( <args> ) ;\n\n }\n\n }\n\n
RenderedArgs == SubSeq(output, 12, Len(output) - 4)

\* the type is Self itself: the generic parameter Self, or a path named Self
\* without generic arguments
IsSelfType(ty) ==
    \/ ty.k = "Generic" /\ ty.name = "Self"
    \/ ty.k = "ResolvedPath" /\ ty.name = "Self" /\ ~ty.args

\* a render of a method of one parameter and no return type has returned
OneParameterRendered ==
    /\ status = "done"
    /\ IsSignatureCrate
    /\ Len(MethodDecl.inputs) = 1
    /\ MethodDecl.output = <<>>

\* the parameter of the method, if it is named `self`, is written `self` for
\* the type Self, `&self` or `&mut self` for a reference to Self, and
\* `self: <type>` for every other type; under another name it is written
\* `<name>: <type>`
SelfRule ==
    LET name == MethodDecl.inputs[1].name
        ty == MethodDecl.inputs[1].ty
    IN  RenderedArgs =
            IF name # "self" THEN <<name, ": ">> \o RenderType(ty)
            ELSE IF IsSelfType(ty) THEN <<"self">>
            ELSE IF ty.k = "BorrowedRef" /\ IsSelfType(ty.elems[1])
                 THEN (IF ty.mutable THEN <<"&mut self">> ELSE <<"&self">>)
            ELSE <<"self", ": ">> \o RenderType(ty)

\* C25: a parameter named `self` renders as `self` when its type is exactly
\* Self, as `&self` or `&mut self` when its type is a plain reference to Self,
\* and as `self: <type>` in every other case (Box<Self>, or a reference to a
\* type other than Self such as &Box<Self>); a parameter with another name
\* renders as `<name>: <type>`.
C25_SelfParameter == OneParameterRendered => SelfRule

\* the receiver is not a reference to anything but Self
ReceiverNotBehindReference ==
    LET ty == MethodDecl.inputs[1].ty
    IN  (MethodDecl.inputs[1].name = "self" /\ ty.k = "BorrowedRef")
            => IsSelfType(ty.elems[1])

\* the self rule for every receiver but a reference to a type other than Self
SelfRuleElsewhere ==
    (OneParameterRendered /\ ReceiverNotBehindReference) => SelfRule

(***************************************************************************)
(* Parentheses around dyn-trait objects                                    *)
(***************************************************************************)
Lifetimes == {"'a", "'static"}

RECURSIVE BoundsEnd(_, _)
\* the place of the last bound of the list `b1 + b2 + ..` whose first bound
\* stands at place j of the text
BoundsEnd(text, j) ==
    IF j + 2 <= Len(text) /\ text[j + 1] = " + "
    THEN BoundsEnd(text, j + 2) ELSE j

\* the places of the text where a dyn-trait object starts
DynPlaces(text) == {i \in 1..Len(text) : text[i] = "dyn "}

\* the dyn-trait object at place i ends with a lifetime bound
Bounded(text, i) == text[BoundsEnd(text, i + 1)] \in Lifetimes

\* the dyn-trait object at place i stands alone between parentheses
Wrapped(text, i) ==
    LET end == BoundsEnd(text, i + 1)
    IN  /\ i > 1 /\ text[i - 1] = "("
        /\ end < Len(text) /\ text[end + 1] = ")"

\* how many dyn-trait objects of the text are wrapped, among those with a
\* lifetime bound (bounded) or among those without
WrappedCount(text, bounded) ==
    Cardinality({i \in DynPlaces(text) :
                    Wrapped(text, i) /\ (Bounded(text, i) = bounded)})

RECURSIVE DynCount(_, _, _, _), DynCountIn(_, _, _, _)
\* how many dyn-trait objects the type ty holds (itself included), among
\* those with a lifetime (bounded) or those without, that stand directly in
\* a type of one of the kinds `parents`; `parent` is the kind of the type
\* that holds ty, "none" for the type of a parameter or a return type
DynCount(ty, parent, parents, bounded) ==
    (IF ty.k = "DynTrait" /\ (ty.lifetime # NoLifetime) = bounded
        /\ parent \in parents THEN 1 ELSE 0)
    + DynCountIn(ty.elems \o ty.output, ty.k, parents, bounded)

DynCountIn(types, parent, parents, bounded) ==
    IF types = <<>> THEN 0
    ELSE DynCount(Head(types), parent, parents, bounded)
         + DynCountIn(Tail(types), parent, parents, bounded)

\* the kinds of types that hold other types
HoldingKinds ==
    {"BorrowedRef", "RawPointer", "Slice", "Array", "Tuple", "QualifiedPath",
     "ResolvedPath", "FunctionPointer"}

\* the kinds of types that render what they hold as nested: the referent of
\* a reference or raw pointer, the element of a slice, array or tuple, the
\* self type of a qualified path
NestingKinds ==
    {"BorrowedRef", "RawPointer", "Slice", "Array", "Tuple", "QualifiedPath"}

\* the types of the method: those of its parameters and its return type
WrittenTypes ==
    [i \in 1..Len(MethodDecl.inputs) |-> MethodDecl.inputs[i].ty] \o MethodDecl.output

\* a render of a method without `self` parameter has returned
TypesRendered ==
    /\ status = "done"
    /\ IsSignatureCrate
    /\ \A i \in 1..Len(MethodDecl.inputs) : MethodDecl.inputs[i].name # "self"

\* C26: a dyn-trait type with a lifetime bound is wrapped in parentheses
\* whenever it is nested inside another type expression (referent of a
\* reference or raw pointer, element of a slice, array or tuple, self type of
\* a qualified path, generic argument of a path type) and is not wrapped when
\* it is the outermost type; a dyn-trait type without lifetime bound is never
\* wrapped.
C26_DynTraitParentheses ==
    TypesRendered =>
        /\ WrappedCount(output, TRUE)
            = DynCountIn(WrittenTypes, "none", HoldingKinds, TRUE)
        /\ WrappedCount(output, FALSE) = 0

\* C26, amended: a dyn-trait type with a lifetime bound is wrapped in
\* parentheses exactly when it stands directly in a reference, raw pointer,
\* slice, array, tuple, or as the self type of a qualified path; it is not
\* wrapped as the outermost type, as a generic argument of a path type, or as
\* a parameter or return type of a function pointer; a dyn-trait type without
\* lifetime bound is never wrapped.
C26_WrappedWhereNested ==
    TypesRendered =>
        /\ WrappedCount(output, TRUE)
            = DynCountIn(WrittenTypes, "none", NestingKinds, TRUE)
        /\ WrappedCount(output, FALSE) = 0
        /\ Cardinality(DynPlaces(output))
            = DynCountIn(WrittenTypes, "none", HoldingKinds \cup {"none"}, TRUE)
              + DynCountIn(WrittenTypes, "none", HoldingKinds \cup {"none"}, FALSE)

\* C26 witness: the render of `fn method() -> &'a (dyn std::any::Any + Send +
\* 'static)` has returned, with the dyn-trait object between parentheses
C26_Witness ==
    /\ TypesRendered
    /\ MethodDecl.output
        = <<BorrowedRef("'a", FALSE, DynTrait(<<"std::any::Any", "Send">>, "'static"))>>
    /\ WrappedCount(output, TRUE) = 1

(***************************************************************************)
(* Order of the output                                                     *)
(***************************************************************************)
RECURSIVE Embeds(_, _, _)
\* from place `from` on, the text holds the texts of the list one after the
\* other, each in a segment of its own: the first ends before the second
\* begins, and so on; an empty text takes no place
Embeds(text, from, texts) ==
    IF texts = <<>> THEN TRUE
    ELSE IF Head(texts) = <<>> THEN Embeds(text, from, Tail(texts))
    ELSE \E p \in Occurrences(text, Head(texts)) :
            p >= from /\ Embeds(text, p + Len(Head(texts)), Tail(texts))

\* what each field of the struct's list contributes, in the order of the list
FieldTexts(item) ==
    LET present == PresentFields(item.items)
    IN  [k \in 1..Len(present) |->
            IF item.skind = "tuple" THEN TupleSlot(present[k])
            ELSE RenderStructField(present[k])]

\* what each impl block of the struct's list contributes
ImplTexts(item) ==
    [k \in 1..Len(item.impls) |->
        IF Resolves(item.impls[k]) /\ crate.index[item.impls[k]].kind = "Impl"
        THEN RenderImpl(crate.index[item.impls[k]]) ELSE <<>>]

\* what each member of the impl's list contributes
MemberTexts(impl_) ==
    [k \in 1..Len(impl_.items) |->
        IF Resolves(impl_.items[k])
           /\ ImplMemberIncluded(impl_, crate.index[impl_.items[k]], cfg)
        THEN RenderImplItem(crate.index[impl_.items[k]]) ELSE <<>>]

\* what each variant of the enum's list contributes
VariantTexts(item) ==
    [k \in 1..Len(item.items) |->
        IF Resolves(item.items[k])
        THEN RenderEnumVariant(crate.index[item.items[k]]) ELSE <<>>]

\* what each member of the trait's list contributes
TraitItemTexts(item) ==
    [k \in 1..Len(item.items) |->
        IF Resolves(item.items[k])
        THEN RenderTraitItem(crate.index[item.items[k]]) ELSE <<>>]

\* the calls that the module call s made are the calls for the children of
\* its list that resolve, in the order of the list, and the text of each ends
\* before the text of the next begins, inside the text of the module
ChildrenInOrder(s) ==
    LET kids == Kids(s.cid)
        listed == SelectSeq(crate.index[s.id].items, LAMBDA id : Resolves(id))
    IN  /\ Len(kids) = Len(listed)
        /\ \A k \in 1..Len(kids) :
            /\ kids[k].id = listed[k]
            /\ s.from <= kids[k].from /\ kids[k].to <= s.to
            /\ k < Len(kids) => kids[k].to <= kids[k + 1].from

\* the text of the rendered struct, enum or trait holds what the entries of
\* each of its lists contribute, in the order of the list
EntriesInOrder(s) ==
    LET item == crate.index[s.id]
        text == Text(s)
    IN  CASE item.kind = "Struct" ->
                /\ Embeds(text, 1, FieldTexts(item))
                /\ Embeds(text, 1, ImplTexts(item))
                /\ \A k \in 1..Len(item.impls) :
                    ImplTexts(item)[k] # <<>> =>
                        Embeds(text, 1, MemberTexts(crate.index[item.impls[k]]))
          [] item.kind = "Enum" -> Embeds(text, 1, VariantTexts(item))
          [] item.kind = "Trait" -> Embeds(text, 1, TraitItemTexts(item))
          [] OTHER -> TRUE

RECURSIVE ImplBlocksOfStructs(_)
\* how many impl blocks the struct renderings among the calls wrote, each
\* from the impl list of its struct
ImplBlocksOfStructs(calls) ==
    IF calls = <<>> THEN 0
    ELSE LET s == Head(calls)
             blocks == IF s.fn = "render_item" /\ Resolves(s.id)
                          /\ crate.index[s.id].kind = "Struct" /\ Text(s) # <<>>
                       THEN Cardinality({k \in 1..Len(crate.index[s.id].impls) :
                                           ImplTexts(crate.index[s.id])[k] # <<>>})
                       ELSE 0
         IN  blocks + ImplBlocksOfStructs(Tail(calls))

\* the impl blocks that an enum or a trait of the crate lists
ListedOutsideStructs ==
    UNION {{crate.index[x].impls[k] : k \in 1..Len(crate.index[x].impls)} :
            x \in {y \in DOMAIN crate.index : crate.index[y].kind \in {"Enum", "Trait"}}}

\* the first line of the impl block
ImplOpening(impl_) ==
    <<"impl", " ">>
    \o (IF impl_.trait # NoPath THEN PathText(impl_.trait) \o <<" for ">> ELSE <<>>)
    \o <<impl_.ty, " {\n">>

\* C28: an Impl item reached as a child of a module or as the resolved target
\* of an import renders as empty text under every configuration; the impl
\* lists of enums and traits are not traversed, so an impl whose target is an
\* enum is not in the output; every impl block of the output comes from the
\* impl list of a rendered struct.
C28_ImplsOnlyThroughStructs ==
    /\ \A s \in Returned :
        (s.fn = "render_item" /\ Resolves(s.id) /\ crate.index[s.id].kind = "Impl")
            => Text(s) = <<>>
    /\ (status = "done" /\ Resolves(crate.root)) =>
        /\ \A i \in ListedOutsideStructs :
            Resolves(i) =>
                /\ ~Contains(output, ImplOpening(crate.index[i]))
                /\ \A k \in 1..Len(crate.index[i].items) :
                    Resolves(crate.index[i].items[k]) =>
                        Count(output, crate.index[crate.index[i].items[k]].name) = 0
        /\ Count(output, "impl") = ImplBlocksOfStructs(spans)

\* C28 witness: with render_private_items and both impl flags on, a render has
\* returned that reached one Impl item as a child of the root module and one
\* as the resolved target of an import, in a crate whose enum lists two impl
\* blocks, and that wrote the impl block of a struct
C28_Witness ==
    /\ status = "done"
    /\ cfg.private /\ cfg.auto /\ cfg.blanket
    /\ \E s \in Returned :
        /\ s.fn = "render_item" /\ crate.index[s.id].kind = "Impl"
        /\ Caller(s).fn = "render_module"
    /\ \E s \in Returned :
        /\ s.fn = "render_item" /\ crate.index[s.id].kind = "Impl" /\ s.force
        /\ Caller(s).fn = "render_import"
    /\ \E x \in DOMAIN crate.index :
        crate.index[x].kind = "Enum" /\ Len(crate.index[x].impls) = 2
    /\ Count(output, "impl") = 1

(***************************************************************************)
(* The fields of enum variants                                             *)
(***************************************************************************)
\* the fields of the variant that the index holds as StructField items
FieldsOf(variant) ==
    SelectSeq(variant.items,
              LAMBDA id : Resolves(id) /\ crate.index[id].kind = "StructField")

\* the slots of the variant are all fields that the index holds, or None
AllFieldsHeld(variant) ==
    \A k \in 1..Len(variant.items) :
        variant.items[k] # NoId =>
            /\ Resolves(variant.items[k])
            /\ crate.index[variant.items[k]].kind = "StructField"

\* the tuple variant written with the type of each of its fields
TupleVariantInFull(variant) ==
    <<"    ">> \o RenderName(variant.name) \o <<"(">>
    \o Join([k \in 1..Len(FieldsOf(variant)) |->
                <<crate.index[FieldsOf(variant)[k]].ty>>], ", ")
    \o <<")">>

\* the struct-like variant written with one blank line for each of its fields
StructVariantEmptied(variant) ==
    <<"    ">> \o RenderName(variant.name) \o <<" {\n">>
    \o Concat([k \in 1..Len(FieldsOf(variant)) |-> <<"        ", "\n">>])
    \o <<"    }">>

\* the named field as a line of a struct-like variant
NamedFieldLine(field) == <<field.name, ": ", field.ty, ",\n">>

\* the renderings of enums that returned with text
RenderedEnums ==
    {s \in Returned : /\ s.fn = "render_item" /\ Resolves(s.id)
                      /\ crate.index[s.id].kind = "Enum" /\ Text(s) # <<>>}

\* the variants that the enum of the call s lists and the index holds
VariantsOf(s) ==
    {crate.index[v] : v \in {crate.index[s.id].items[k] :
                                k \in {j \in 1..Len(crate.index[s.id].items) :
                                        Resolves(crate.index[s.id].items[j])}}}

\* C29: every positional field of a tuple variant is rendered by its type,
\* whatever the visibility of the field item and render_private_items; a
\* named field of a struct-like variant is rendered only if the field item is
\* Public or render_private_items is on; so under default options a
\* struct-like variant whose fields have a non-public visibility renders with
\* an empty field list.
C29_VariantFields ==
    \A s \in RenderedEnums : \A variant \in VariantsOf(s) :
        /\ (variant.vkind = "tuple" /\ AllFieldsHeld(variant)) =>
                Contains(Text(s), TupleVariantInFull(variant))
        /\ variant.vkind = "struct" =>
            /\ \A k \in 1..Len(FieldsOf(variant)) :
                LET field == crate.index[FieldsOf(variant)[k]]
                IN  Contains(Text(s), NamedFieldLine(field))
                        <=> (field.vis = Public \/ cfg.private)
            /\ (/\ ~cfg.private
                /\ \A k \in 1..Len(FieldsOf(variant)) :
                        crate.index[FieldsOf(variant)[k]].vis # Public)
                    => Contains(Text(s), StructVariantEmptied(variant))

\* C29 witness: under default options an enum has been rendered with a tuple
\* variant of two fields and a struct-like variant of two fields, all of the
\* inherited visibility
C29_Witness ==
    /\ ~cfg.private
    /\ \E s \in RenderedEnums :
        /\ \E variant \in VariantsOf(s) :
            /\ variant.vkind = "tuple" /\ Len(FieldsOf(variant)) = 2
            /\ \A k \in 1..2 : crate.index[FieldsOf(variant)[k]].vis = Default
        /\ \E variant \in VariantsOf(s) :
            /\ variant.vkind = "struct" /\ Len(FieldsOf(variant)) = 2
            /\ \A k \in 1..2 : crate.index[FieldsOf(variant)[k]].vis = Default
            /\ Contains(Text(s), StructVariantEmptied(variant))

(***************************************************************************)
(* Re-export statements                                                    *)
(***************************************************************************)
\* the returned calls on an Import item that is not public
OnPrivateImports(fn) ==
    {s \in Returned : /\ s.fn = fn /\ Resolves(s.id)
                      /\ crate.index[s.id].kind = "Import"
                      /\ crate.index[s.id].vis # Public}

\* the call wrote a re-export statement: it made no call, and its text
\* begins with `pub use`
WroteStatement(r) ==
    /\ Kids(r.cid) = <<>>
    /\ Text(r) # <<>>
    /\ Text(r)[1] = "pub use "

\* the call wrote no statement of its own: its text is the text of the calls
\* it made, all of them render_item with force_private
InlinedOnly(r) ==
    LET kids == Kids(r.cid)
    IN  /\ \A k \in 1..Len(kids) : kids[k].fn = "render_item" /\ kids[k].force
        /\ IF kids = <<>> THEN Text(r) = <<>>
           ELSE /\ r.from = kids[1].from
                /\ r.to = kids[Len(kids)].to
                /\ \A k \in 1..(Len(kids) - 1) : kids[k].to = kids[k + 1].from

\* every re-export statement that a render_import call wrote begins with
\* `pub use`, and no statement of the output begins with `use`
StatementsArePublic ==
    /\ \A r \in Returned :
        (r.fn = "render_import" /\ Kids(r.cid) = <<>> /\ Text(r) # <<>>)
            => Text(r)[1] = "pub use "
    /\ Count(output, "use ") = 0

\* with render_private_items, render_item hands a non-public import to
\* render_import and returns its text
PrivateImportsDispatched ==
    cfg.private =>
        \A s \in OnPrivateImports("render_item") :
            /\ Len(Kids(s.cid)) = 1
            /\ Kids(s.cid)[1].fn = "render_import"
            /\ Kids(s.cid)[1].id = s.id
            /\ Text(s) = Text(Kids(s.cid)[1])

\* C30: every re-export statement of the output begins with `pub use`,
\* whatever the visibility of its Import item; under default options a
\* non-public Import item never contributes text; with render_private_items a
\* non-public import is rendered through the import rule: a `pub use`
\* statement when its target does not resolve, its target inlined
\* (force_private) when it does.
C30_ReExportsPublic ==
    /\ StatementsArePublic
    /\ ~cfg.private =>
        \A s \in OnPrivateImports("render_item") \cup OnPrivateImports("render_import") :
            Text(s) = <<>>
    /\ PrivateImportsDispatched
    /\ cfg.private =>
        \A r \in OnPrivateImports("render_import") :
            IF TargetInlined(crate.index[r.id])
            THEN InlinedOnly(r) ELSE WroteStatement(r)

\* C30, amended: every re-export statement begins with `pub use`; under
\* default options a non-public Import item contributes no text where a
\* module lists it, and is rendered only as the resolved target of another
\* import (force_private); with render_private_items a non-public import is
\* rendered through the import rule: if it is not a glob import, a `pub use`
\* statement when its target does not resolve and its target inlined when it
\* does; if it is a glob import, the public children of its target inlined
\* when the target resolves to a module and a `pub use ..::*` statement
\* otherwise.
C30_ImportRule ==
    /\ StatementsArePublic
    /\ ~cfg.private =>
        /\ \A s \in OnPrivateImports("render_item") : ~s.force => Text(s) = <<>>
        /\ \A r \in OnPrivateImports("render_import") :
            /\ Caller(r).fn = "render_item"
            /\ Caller(r).force
            /\ Caller(Caller(r)).fn = "render_import"
    /\ PrivateImportsDispatched
    /\ \A r \in OnPrivateImports("render_import") :
        LET import == crate.index[r.id]
        IN  IF import.glob
            THEN IF GlobInlined(import) THEN InlinedOnly(r) ELSE WroteStatement(r)
            ELSE IF TargetInlined(import) THEN InlinedOnly(r) ELSE WroteStatement(r)

\* C30 witness: with render_private_items, a render has returned in which a
\* non-public import whose target does not resolve wrote a `pub use` statement
C30_Witness ==
    /\ status = "done"
    /\ cfg.private
    /\ \E r \in OnPrivateImports("render_import") :
        /\ ~TargetInlined(crate.index[r.id])
        /\ ~crate.index[r.id].glob
        /\ WroteStatement(r)
        /\ Caller(r).fn = "render_item" /\ ~Caller(r).force

====
